---------------------------- MODULE Spec2Model ----------------------------
(***************************************************************************)
(* A model of blame-tracker: the unified-diff parser and the parallel      *)
(* change miner (core/git_analyzer.py), and the gap intersector with its   *)
(* grouping algorithm (core/blame_intersector.py, models/__init__.py).     *)
(*                                                                         *)
(* Text is modelled as sequences of one-character strings, so that         *)
(* startswith, slicing, the hunk-header regular expression and int() are   *)
(* computed on characters as the code computes them.                       *)
(***************************************************************************)
EXTENDS Integers, Sequences, FiniteSets, TLC

VARIABLES
    \* ---- GitAnalyzer._parse_unified_diff ----
    lines,              \* the lines of diff_text read so far (text + what git meant)
    current_file,       \* the parser's current_file (NoneFile for None)
    current_line_num,   \* the parser's running line number
    changes_by_file,    \* the parser's result map: file -> set of line numbers
    parse_pc,           \* "idle" | "loop" | "raised" | "returned"
    \* ---- BlameIntersector._create_blame_groups ----
    culprit_lines,      \* the set of culprit line numbers passed in
    file_lines,         \* the file's lines as readlines() gives them
    sorted_culprits,    \* sorted(culprit_lines)
    next_culprit,       \* the position in sorted_culprits the for loop is at
    current_group_lines, \* the open group
    groups,             \* the groups closed so far
    group_pc,           \* "idle" | "called" | "loop" | "returned"
    \* ---- BlameIntersector.intersect ----
    coverage_data,      \* the coverage map, in the order of its items()
    git_changes,        \* the change map: file path -> GitChange
    file_idx,           \* the position of the for loop in coverage_data
    results,            \* the list of BlameResult
    inter_pc,           \* "idle" | "loop" | "returned"
    \* ---- GitAnalyzer.get_recent_changes ----
    history,            \* the repository's commits as iter_commits yields them
    days,               \* the days parameter
    max_workers,        \* the max_workers parameter
    walk_pos,           \* how many commits iter_commits has yielded
    commits,            \* the list _get_commits_since builds (positions in history)
    futures,            \* one future per element of commits
    changes,            \* the merged map: file path -> GitChange
    merged,             \* the futures merged so far, in the order of merging
    git_pc,             \* "idle" | "walk" | "submit" | "pool" | "returned"
    \* ---- CoberturaParser.parse ----
    platform,           \* the flavour of pathlib.Path: "posix" | "nt"
    repo_root,          \* self.repo_root, resolved
    report,             \* the class and line elements of the report read so far
    coverage_by_file,   \* the map parse builds, in the order of its keys
    file_coverage,      \* the FileCoverage of the class element being read
    cob_pc,             \* "idle" | "classes" | "lines" | "returned"
    \* ---- BlamTracker.run ----
    coverage_file,      \* what is at self.coverage_file
    repo,               \* what is at self.repo_path
    run_days,           \* self.days
    run_coverage,       \* the local coverage_data
    run_changes,        \* the local git_changes
    run_results,        \* the local results
    analysis,           \* the BlameAnalysis returned
    raised,             \* the exception run raised
    run_pc,             \* "idle" | "parse" | "mine" | "intersect" | "build"
                        \*   | "returned" | "raised"
    \* ---- the data models: LineInfo, GitChange, BlameAnalysis ----
    line_set,           \* a Python set of LineInfo
    change_set,         \* a Python set of GitChange
    compared,           \* the last two records compared, with == and the hashes' ==
    self_results,       \* the results list of a BlameAnalysis
    top_culprits,       \* the last call of get_top_culprits: its limit, what it returned
    models_pc,          \* "idle" | "LineInfo" | "GitChange" | "BlameAnalysis"
    \* ---- cli.main ----
    args,               \* the parsed command line
    cli_pc              \* "idle" | "validate" | "mining" | "exit0" | "exit1"

parserVars == <<lines, current_file, current_line_num, changes_by_file, parse_pc>>
groupVars == <<culprit_lines, file_lines, sorted_culprits, next_culprit,
               current_group_lines, groups, group_pc>>

intersectVars == <<coverage_data, git_changes, file_idx, results, inter_pc>>

gitVars == <<history, days, max_workers, walk_pos, commits, futures, changes,
             merged, git_pc>>

cobVars == <<platform, repo_root, report, coverage_by_file, file_coverage, cob_pc>>

runVars == <<coverage_file, repo, run_days, run_coverage, run_changes, run_results,
             analysis, raised, run_pc>>

modelsVars == <<line_set, change_set, compared, self_results, top_culprits, models_pc>>

cliVars == <<args, cli_pc>>

vars == <<parserVars, groupVars, intersectVars, gitVars, cobVars, runVars, modelsVars,
          cliVars>>

\* what a step of one component leaves alone
notParser == <<groupVars, intersectVars, gitVars, cobVars, runVars, modelsVars, cliVars>>
notGroups == <<parserVars, intersectVars, gitVars, cobVars, runVars, modelsVars, cliVars>>
notIntersect == <<parserVars, groupVars, gitVars, cobVars, runVars, modelsVars, cliVars>>
notGit == <<parserVars, groupVars, intersectVars, cobVars, runVars, modelsVars, cliVars>>
notCob == <<parserVars, groupVars, intersectVars, gitVars, runVars, modelsVars, cliVars>>
notRun == <<parserVars, groupVars, intersectVars, gitVars, cobVars, modelsVars, cliVars>>
notModels == <<parserVars, groupVars, intersectVars, gitVars, cobVars, runVars, cliVars>>
\* the mining is part of the command, so a step of the command leaves alone:
notCli == <<parserVars, groupVars, intersectVars, cobVars, runVars, modelsVars>>

-----------------------------------------------------------------------------
(* Generic helpers *)

Max(a, b) == IF a >= b THEN a ELSE b
Min(a, b) == IF a <= b THEN a ELSE b

\* s.startswith(prefix)
StartsWith(s, prefix) ==
    /\ Len(s) >= Len(prefix)
    /\ SubSeq(s, 1, Len(prefix)) = prefix

\* the characters of s at positions p .. p+Len(w)-1 are w
HasAt(s, p, w) ==
    /\ Len(s) >= p + Len(w) - 1
    /\ SubSeq(s, p, p + Len(w) - 1) = w

\* s[n:] of Python (0-based n)
SliceFrom(s, n) == SubSeq(s, n + 1, Len(s))

Digits == {"0", "1", "2", "3", "4", "5", "6", "7", "8", "9"}

DigitVal(c) ==
    CASE c = "0" -> 0 [] c = "1" -> 1 [] c = "2" -> 2 [] c = "3" -> 3
      [] c = "4" -> 4 [] c = "5" -> 5 [] c = "6" -> 6 [] c = "7" -> 7
      [] c = "8" -> 8 [] c = "9" -> 9

\* int(s) for a non-empty run of decimal digits
RECURSIVE ToInt(_)
ToInt(s) ==
    IF s = <<>> THEN 0
    ELSE 10 * ToInt(SubSeq(s, 1, Len(s) - 1)) + DigitVal(s[Len(s)])

\* the position after the longest run of digits of s that starts at p  (\d+, greedy)
RECURSIVE DigitEnd(_, _)
DigitEnd(s, p) ==
    IF p <= Len(s) /\ s[p] \in Digits THEN DigitEnd(s, p + 1) ELSE p

\* the position after an optional ",\d+" at p  ((?:,\d+)?)
OptCount(s, p) ==
    IF p <= Len(s) /\ s[p] = "," /\ DigitEnd(s, p + 1) > p + 1
    THEN DigitEnd(s, p + 1)
    ELSE p

-----------------------------------------------------------------------------
(* GitAnalyzer._parse_unified_diff  (core/git_analyzer.py 158-210) *)

\* current_file = None
NoneFile == <<"None">>

\* re.match(r"@@ -\d+(?:,\d+)? \+(\d+)(?:,(\d+))? @@", line): the positions of the
\* match, or ok = FALSE. g1 is group(1).
HunkMatch(line) ==
    LET p2 == DigitEnd(line, 5)
        p3 == OptCount(line, p2)
        p4 == p3 + 2
        p5 == DigitEnd(line, p4)
        p6 == OptCount(line, p5)
    IN  [ok |-> /\ HasAt(line, 1, <<"@", "@", " ", "-">>)
                /\ p2 > 5
                /\ HasAt(line, p3, <<" ", "+">>)
                /\ p5 > p4
                /\ HasAt(line, p6, <<" ", "@", "@">>),
         g1 |-> SubSeq(line, p4, p5 - 1)]

\* Branch with a deleted line counted like a context line (a mutant of Branch)
BranchCountingDeletions(st, line) ==
    IF StartsWith(line, <<"+", "+", "+">>) THEN "header"
    ELSE IF HunkMatch(line).ok THEN "hunk"
    ELSE IF st.current_file = NoneFile THEN "nofile"
    ELSE IF StartsWith(line, <<"+">>) THEN
        (IF st.current_file \in DOMAIN st.changes_by_file THEN "add" ELSE "keyerror")
    ELSE IF ~StartsWith(line, <<"\\">>) THEN "ctx"
    ELSE "nonl"

\* Which branch of the loop body a line takes in parser state st.
Branch(st, line) ==
    IF StartsWith(line, <<"+", "+", "+">>) THEN "header"
    ELSE IF HunkMatch(line).ok THEN "hunk"
    ELSE IF st.current_file = NoneFile THEN "nofile"
    ELSE IF StartsWith(line, <<"+">>) THEN
        (IF st.current_file \in DOMAIN st.changes_by_file THEN "add" ELSE "keyerror")
    ELSE IF StartsWith(line, <<"-">>) THEN "del"
    ELSE IF ~StartsWith(line, <<"\\">>) THEN "ctx"
    ELSE "nonl"

\* m with m[k] = v (k added to the keys when it is new)
Put(m, k, v) == [x \in DOMAIN m \cup {k} |-> IF x = k THEN v ELSE m[x]]

\* One iteration of "for line in lines". st.raised: an exception left the loop
\* (it is caught at 207 and the map built so far is returned).
ParseLine(st, line) ==
    LET b == Branch(st, line) IN
    CASE b = "header" ->
            [st EXCEPT !.current_file = SliceFrom(line, 6)]
      [] b = "hunk" ->
            [st EXCEPT !.current_line_num = ToInt(HunkMatch(line).g1),
                       !.changes_by_file =
                            IF st.current_file \in DOMAIN st.changes_by_file
                            THEN st.changes_by_file
                            ELSE Put(st.changes_by_file, st.current_file, {})]
      [] b = "nofile" -> st
      [] b = "add" ->
            [st EXCEPT !.changes_by_file[st.current_file] =
                            @ \cup {st.current_line_num},
                       !.current_line_num = @ + 1]
      [] b = "keyerror" -> [st EXCEPT !.raised = TRUE]
      [] b = "del" -> st
      [] b = "ctx" -> [st EXCEPT !.current_line_num = @ + 1]
      [] b = "nonl" -> st

EmptyMap == [x \in {} |-> {}]

ParseStart ==
    [current_file |-> NoneFile, current_line_num |-> 0,
     changes_by_file |-> EmptyMap, raised |-> FALSE]

\* The loop over a whole text (a sequence of lines), from state st.
RECURSIVE ParseLoop(_, _)
ParseLoop(st, text) ==
    IF text = <<>> \/ st.raised THEN st
    ELSE ParseLoop(ParseLine(st, Head(text)), Tail(text))

\* _parse_unified_diff(diff_text): the map returned, also after an exception.
ParseUnifiedDiff(text) == ParseLoop(ParseStart, text).changes_by_file

-----------------------------------------------------------------------------
(* The text handed to the parser: `git diff` output (git_analyzer.py 126-130,
   tests/test_integration.py 278-360), produced line by line.  A line is a
   record: text is what the parser reads; kind, file, start, old and new say
   what git meant by it and are read only by the grammar below and by the
   properties, never by the parser. *)

MaxDiffLines == 8

C(text, kind) == [text |-> text, kind |-> kind, file |-> <<>>, start |-> 0,
                  old |-> 0, new |-> 0]

PathF == <<"f">>
PathG == <<"g">>
Paths == {PathF, PathG}

\* "diff --git a/<p> b/<p>"
DiffGitLine(p) ==
    [C(<<"d", "i", "f", "f", " ", "-", "-", "g", "i", "t", " ", "a", "/">> \o p
         \o <<" ", "b", "/">> \o p, "diffgit") EXCEPT !.file = p]
\* "--- a/<p>"
MinusLine(p) ==
    [C(<<"-", "-", "-", " ", "a", "/">> \o p, "minus") EXCEPT !.file = p]
\* "+++ b/<p>"
PlusLine(p) ==
    [C(<<"+", "+", "+", " ", "b", "/">> \o p, "plus") EXCEPT !.file = p]

H(text, start, old, new) ==
    [text |-> text, kind |-> "hunk", file |-> <<>>, start |-> start,
     old |-> old, new |-> new]

\* "@@ -5,6 +5,7 @@", "@@ -15,5 +16,6 @@", "@@ -0,0 +1,2 @@", "@@ -1 +1,2 @@",
\* "@@ -2,2 +2 @@", "@@ -0,0 +1 @@"
HunkLines ==
    { H(<<"@","@"," ","-","5",",","6"," ","+","5",",","7"," ","@","@">>, 5, 6, 7),
      H(<<"@","@"," ","-","1","5",",","5"," ","+","1","6",",","6"," ","@","@">>,
        16, 5, 6),
      H(<<"@","@"," ","-","0",",","0"," ","+","1",",","2"," ","@","@">>, 1, 0, 2),
      H(<<"@","@"," ","-","1"," ","+","1",",","2"," ","@","@">>, 1, 1, 2),
      H(<<"@","@"," ","-","2",",","2"," ","+","2"," ","@","@">>, 2, 2, 1),
      H(<<"@","@"," ","-","0",",","0"," ","+","1"," ","@","@">>, 1, 0, 1) }

\* "+x"; and two added lines whose own text starts with "++": "+++x", "+++ b/g"
AddLines ==
    { C(<<"+", "x">>, "add"),
      C(<<"+", "+", "+", "x">>, "add"),
      C(<<"+", "+", "+", " ", "b", "/", "g">>, "add") }
\* "-x"
DelLines == { C(<<"-", "x">>, "del") }
\* " x", and a context line whose text starts with "+": " +x"
CtxLines == { C(<<" ", "x">>, "ctx"), C(<<" ", "+", "x">>, "ctx") }
\* "\ No newline at end of file" (cut short)
NoNewlineLines == { C(<<"\\", " ", "N", "o">>, "nonl") }

BodyKinds == {"add", "del", "ctx", "nonl"}

\* the greatest position of ls whose kind is in ks, 0 when there is none
LastOf(ls, ks) ==
    LET S == {i \in 1..Len(ls) : ls[i].kind \in ks}
    IN  IF S = {} THEN 0 ELSE CHOOSE i \in S : \A j \in S : j <= i

Count(ls, from, to, ks) == Cardinality({j \in from..to : ls[j].kind \in ks})

\* the open hunk of ls: its header's position, and the old and new lines still due
OpenHunk(ls) ==
    LET h == LastOf(ls, {"hunk"}) IN
    IF h = 0 \/ LastOf(ls, {"diffgit", "minus", "plus"}) > h
    THEN [at |-> 0, oldLeft |-> 0, newLeft |-> 0, line |-> 0]
    ELSE [at |-> h,
          oldLeft |-> ls[h].old - Count(ls, h + 1, Len(ls), {"ctx", "del"}),
          newLeft |-> ls[h].new - Count(ls, h + 1, Len(ls), {"ctx", "add"}),
          line |-> ls[h].start + Count(ls, h + 1, Len(ls), {"ctx", "add"})]

\* ls is a whole diff, or ends where a hunk or a file section may start
SectionDone(ls) ==
    \/ ls = <<>>
    \/ /\ ls # <<>>
       /\ ls[Len(ls)].kind \in BodyKinds
       /\ OpenHunk(ls).oldLeft = 0
       /\ OpenHunk(ls).newLeft = 0

FilesSeen(ls) == {ls[i].file : i \in {j \in 1..Len(ls) : ls[j].kind = "minus"}}

\* the file a new section may be about: f, then g (git lists paths in order)
NextPaths(ls) ==
    IF FilesSeen(ls) = {} THEN {PathF}
    ELSE IF FilesSeen(ls) = {PathF} THEN {PathG} ELSE {}

\* The lines git may write after ls.
NextLines(ls) ==
    LET last == IF ls = <<>> THEN "none" ELSE ls[Len(ls)].kind
        oh == OpenHunk(ls)
    IN  CASE last = "diffgit" -> {MinusLine(ls[Len(ls)].file)}
          [] last = "minus" -> {PlusLine(ls[Len(ls)].file)}
          [] last = "plus" -> HunkLines
          [] OTHER ->
               (IF SectionDone(ls)
                THEN {DiffGitLine(p) : p \in NextPaths(ls)}
                     \cup {MinusLine(p) : p \in NextPaths(ls)}
                     \cup (IF ls = <<>> THEN {}
                           ELSE {h \in HunkLines : h.start > oh.line})
                ELSE {})
               \cup (IF oh.at > 0 /\ oh.newLeft > 0 THEN AddLines ELSE {})
               \cup (IF oh.at > 0 /\ oh.oldLeft > 0 THEN DelLines ELSE {})
               \cup (IF oh.at > 0 /\ oh.oldLeft > 0 /\ oh.newLeft > 0
                     THEN CtxLines ELSE {})
               \cup (IF last \in {"add", "del", "ctx"} THEN NoNewlineLines ELSE {})

\* the parser's state as ParseLine takes it
ParserState ==
    [current_file |-> current_file, current_line_num |-> current_line_num,
     changes_by_file |-> changes_by_file, raised |-> parse_pc = "raised"]

\* The loop body of _parse_unified_diff on line l, the next line of the text.
ReadLine(l) ==
    /\ lines' = Append(lines, l)
    /\ LET st == ParseLine(ParserState, l.text) IN
          /\ current_file' = st.current_file
          /\ current_line_num' = st.current_line_num
          /\ changes_by_file' = st.changes_by_file
          /\ parse_pc' = IF st.raised THEN "raised" ELSE "loop"
    /\ UNCHANGED notParser

\* the lines that may come next and take branch b of the loop body
Taking(b) ==
    IF parse_pc = "loop" /\ Len(lines) < MaxDiffLines
    THEN {l \in NextLines(lines) : Branch(ParserState, l.text) = b}
    ELSE {}

\* 176-178: a line that starts with "+++" sets current_file
ParseFileHeader == \E l \in Taking("header") : ReadLine(l)
\* 181-190: a hunk header restarts the counter
ParseHunkHeader == \E l \in Taking("hunk") : ReadLine(l)
\* 192-193: no file yet
ParseBeforeFile == \E l \in Taking("nofile") : ReadLine(l)
\* 196-198: an added line
ParseAddedLine == \E l \in Taking("add") : ReadLine(l)
\* 197: changes_by_file[current_file] raises KeyError, caught at 207
ParseKeyError == \E l \in Taking("keyerror") : ReadLine(l)
\* 200-202: a deleted line
ParseDeletedLine == \E l \in Taking("del") : ReadLine(l)
\* 203-205: a context line
ParseContextLine == \E l \in Taking("ctx") : ReadLine(l)
\* 203: a line that starts with a backslash
ParseNoNewline == \E l \in Taking("nonl") : ReadLine(l)

\* the end of the text: return changes_by_file (210)
ParseReturn ==
    /\ parse_pc = "loop"
    /\ SectionDone(lines)
    /\ parse_pc' = "returned"
    /\ UNCHANGED <<lines, current_file, current_line_num, changes_by_file>>
    /\ UNCHANGED notParser

ParserIdle ==
    /\ lines = <<>>
    /\ current_file = NoneFile
    /\ current_line_num = 0
    /\ changes_by_file = EmptyMap
    /\ parse_pc = "idle"

GroupsIdle ==
    /\ culprit_lines = {}
    /\ file_lines = <<>>
    /\ sorted_culprits = <<>>
    /\ next_culprit = 0
    /\ current_group_lines = <<>>
    /\ groups = <<>>
    /\ group_pc = "idle"

IntersectIdle ==
    /\ coverage_data = <<>>
    /\ git_changes = EmptyMap
    /\ file_idx = 0
    /\ results = <<>>
    /\ inter_pc = "idle"

CobIdle ==
    /\ platform = "posix"
    /\ repo_root = <<>>
    /\ report = <<>>
    /\ coverage_by_file = <<>>
    /\ file_coverage = [none |-> TRUE]
    /\ cob_pc = "idle"

\* a local that has no value yet
NotYet == <<"None">>

RunIdle ==
    /\ coverage_file = [exists |-> FALSE, well_formed |-> FALSE, elems |-> <<>>]
    /\ repo = [valid |-> FALSE, history |-> <<>>]
    /\ run_days = 0
    /\ run_coverage = NotYet
    /\ run_changes = NotYet
    /\ run_results = NotYet
    /\ analysis = [none |-> TRUE]
    /\ raised = "None"
    /\ run_pc = "idle"

ModelsIdle ==
    /\ line_set = {}
    /\ change_set = {}
    /\ compared = [none |-> TRUE]
    /\ self_results = <<>>
    /\ top_culprits = [none |-> TRUE]
    /\ models_pc = "idle"

CliIdle ==
    /\ args = [none |-> TRUE]
    /\ cli_pc = "idle"

GitIdle ==
    /\ history = <<>>
    /\ days = 0
    /\ max_workers = 0
    /\ walk_pos = 0
    /\ commits = <<>>
    /\ futures = <<>>
    /\ changes = EmptyMap
    /\ merged = <<>>
    /\ git_pc = "idle"

DiffInit ==
    /\ RunIdle
    /\ ModelsIdle
    /\ CliIdle
    /\ CobIdle
    /\ GroupsIdle
    /\ IntersectIdle
    /\ GitIdle
    /\ lines = <<>>
    /\ current_file = NoneFile
    /\ current_line_num = 0
    /\ changes_by_file = EmptyMap
    /\ parse_pc = "loop"

DiffNext ==
    \/ ParseFileHeader
    \/ ParseHunkHeader
    \/ ParseBeforeFile
    \/ ParseAddedLine
    \/ ParseKeyError
    \/ ParseDeletedLine
    \/ ParseContextLine
    \/ ParseNoNewline
    \/ ParseReturn

SpecDiff == DiffInit /\ [][DiffNext]_vars

-----------------------------------------------------------------------------
(* BlameIntersector._create_blame_groups, _create_single_group, _get_line_safe
   (core/blame_intersector.py 98-230) *)

CONTEXT_LINES == 5

\* s.rstrip("\n\r")
RECURSIVE RStrip(_)
RStrip(s) ==
    IF s # <<>> /\ s[Len(s)] \in {"\n", "\r"}
    THEN RStrip(SubSeq(s, 1, Len(s) - 1))
    ELSE s

\* _get_line_safe(file_lines, line_num)
GetLineSafe(fl, line_num) ==
    IF 1 <= line_num /\ line_num <= Len(fl) THEN RStrip(fl[line_num]) ELSE <<>>

\* "for line_num in range(context_start, context_end + 1)" of _create_single_group,
\* from line_num on; g is the group being filled.
RECURSIVE ContextLoop(_, _, _, _)
ContextLoop(g, line_num, context_end, fl) ==
    IF line_num > context_end THEN g
    ELSE ContextLoop(
            IF line_num < g.start_line
            THEN [g EXCEPT !.context_before = Append(@, GetLineSafe(fl, line_num))]
            ELSE IF line_num <= g.end_line
            THEN [g EXCEPT !.culprit_lines = Append(@, GetLineSafe(fl, line_num))]
            ELSE [g EXCEPT !.context_after = Append(@, GetLineSafe(fl, line_num))],
            line_num + 1, context_end, fl)

\* _create_single_group without the max(1, ...) that clips the context at the
\* start of the file (a mutant of CreateSingleGroup)
CreateSingleGroupUnclipped(cl, fl, change) ==
    LET start_line == cl[1]
        end_line == cl[Len(cl)]
        context_start == start_line - CONTEXT_LINES
        context_end == Min(Len(fl), end_line + CONTEXT_LINES)
    IN  ContextLoop([start_line |-> start_line, end_line |-> end_line,
                     context_before |-> <<>>, culprit_lines |-> <<>>,
                     context_after |-> <<>>, git_changes |-> <<change>>],
                    context_start, context_end, fl)

\* _create_single_group with the culprit text restricted to the lines of the
\* culprit list (a mutant of CreateSingleGroup)
CreateSingleGroupCulpritOnly(cl, fl, change) ==
    LET start_line == cl[1]
        end_line == cl[Len(cl)]
        context_start == Max(1, start_line - CONTEXT_LINES)
        context_end == Min(Len(fl), end_line + CONTEXT_LINES)
        g == ContextLoop([start_line |-> start_line, end_line |-> end_line,
                          context_before |-> <<>>, culprit_lines |-> <<>>,
                          context_after |-> <<>>, git_changes |-> <<change>>],
                         context_start, context_end, fl)
    IN  [g EXCEPT !.culprit_lines = [i \in 1..Len(cl) |-> GetLineSafe(fl, cl[i])]]

\* _create_single_group with the end of the group clipped to the length of the
\* file (a mutant of CreateSingleGroup)
CreateSingleGroupEndInFile(cl, fl, change) ==
    LET start_line == cl[1]
        end_line == Min(Len(fl), cl[Len(cl)])
        context_start == Max(1, start_line - CONTEXT_LINES)
        context_end == Min(Len(fl), end_line + CONTEXT_LINES)
    IN  ContextLoop([start_line |-> start_line, end_line |-> end_line,
                     context_before |-> <<>>, culprit_lines |-> <<>>,
                     context_after |-> <<>>, git_changes |-> <<change>>],
                    context_start, context_end, fl)

\* _create_single_group(culprit_lines, file_lines, change, file_path), for a
\* non-empty list cl (it is never called with an empty one)
CreateSingleGroup(cl, fl, change) ==
    LET start_line == cl[1]
        end_line == cl[Len(cl)]
        context_start == Max(1, start_line - CONTEXT_LINES)
        context_end == Min(Len(fl), end_line + CONTEXT_LINES)
    IN  ContextLoop([start_line |-> start_line, end_line |-> end_line,
                     context_before |-> <<>>, culprit_lines |-> <<>>,
                     context_after |-> <<>>, git_changes |-> <<change>>],
                    context_start, context_end, fl)

\* sorted(S) for a set of integers
RECURSIVE Sorted(_)
Sorted(S) ==
    IF S = {} THEN <<>>
    ELSE LET m == CHOOSE x \in S : \A y \in S : x <= y
         IN  <<m>> \o Sorted(S \ {m})

\* the distance measured from the first line of the open group (a mutant of
\* ContinuesGroup)
ContinuesGroupFromStart(cgl, line_num) == line_num <= cgl[1] + (2 * CONTEXT_LINES)

\* a variant that continues the group only up to CONTEXT_LINES from its last line
ContinuesGroupWithinContext(cgl, line_num) == line_num <= cgl[Len(cgl)] + CONTEXT_LINES

\* 129: does line_num continue the open group cgl?
ContinuesGroup(cgl, line_num) == line_num <= cgl[Len(cgl)] + (2 * CONTEXT_LINES)

\* "for line_num in sorted_culprits[1:]" from position i on, then the last group
RECURSIVE GroupsLoop(_, _, _, _, _, _)
GroupsLoop(sc, i, cgl, gs, fl, change) ==
    IF i > Len(sc) THEN Append(gs, CreateSingleGroup(cgl, fl, change))
    ELSE IF ContinuesGroup(cgl, sc[i])
    THEN GroupsLoop(sc, i + 1, Append(cgl, sc[i]), gs, fl, change)
    ELSE GroupsLoop(sc, i + 1, <<sc[i]>>,
                    Append(gs, CreateSingleGroup(cgl, fl, change)), fl, change)

\* _create_blame_groups(culprit_lines, file_lines, change, file_path)
CreateBlameGroups(cls, fl, change) ==
    IF cls = {} THEN <<>>
    ELSE GroupsLoop(Sorted(cls), 2, <<Sorted(cls)[1]>>, <<>>, fl, change)

-----------------------------------------------------------------------------
(* _create_blame_groups step by step, on culprit sets and files drawn at the call
   (tests/test_blame_intersector.py 110-180) *)

MaxCulpritLine == 22
MaxCulprits == 3
MaxFileLen == 24

DigitChar(d) == <<"0", "1", "2", "3", "4", "5", "6", "7", "8", "9">>[d + 1]

\* str(n)
RECURSIVE NatChars(_)
NatChars(n) ==
    IF n < 10 THEN <<DigitChar(n)>>
    ELSE NatChars(n \div 10) \o <<DigitChar(n % 10)>>

\* the text of line i of a file, without its line end
LineContent(i) == <<"l">> \o NatChars(i)

\* a file of len lines as readlines() gives it: each line ends with "\n", but
\* for the last one, which has no line end
FileOfLength(len) ==
    [i \in 1..len |-> IF i < len THEN LineContent(i) \o <<"\n">> ELSE LineContent(i)]

\* the sets of at most k line numbers in 1..n
RECURSIVE SetsUpTo(_, _)
SetsUpTo(k, n) ==
    IF k = 0 THEN {{}}
    ELSE LET P == SetsUpTo(k - 1, n)
         IN  P \cup {s \cup {x} : s \in P, x \in 1..n}

\* the GitChange the tests pass: GitChange(file_path, line_numbers, author="Test",
\* commit_hash="abc123")
TestChange(cls) ==
    [file_path |-> PathF, line_numbers |-> cls, author |-> "Test",
     commit_hash |-> "abc123", commit_date |-> "", commit_message |-> ""]

GroupsInit ==
    /\ RunIdle
    /\ ModelsIdle
    /\ CliIdle
    /\ CobIdle
    /\ ParserIdle
    /\ IntersectIdle
    /\ GitIdle
    /\ culprit_lines \in SetsUpTo(MaxCulprits, MaxCulpritLine)
    /\ \E len \in 0..MaxFileLen : file_lines = FileOfLength(len)
    /\ sorted_culprits = <<>>
    /\ next_culprit = 0
    /\ current_group_lines = <<>>
    /\ groups = <<>>
    /\ group_pc = "called"

\* 116-117: no culprit line, no group
GroupsReturnEmpty ==
    /\ group_pc = "called"
    /\ culprit_lines = {}
    /\ group_pc' = "returned"
    /\ UNCHANGED <<culprit_lines, file_lines, sorted_culprits, next_culprit,
                   current_group_lines, groups>>
    /\ UNCHANGED notGroups

\* 120-125: sort, open the first group
GroupsStart ==
    /\ group_pc = "called"
    /\ culprit_lines # {}
    /\ sorted_culprits' = Sorted(culprit_lines)
    /\ current_group_lines' = <<Sorted(culprit_lines)[1]>>
    /\ next_culprit' = 2
    /\ group_pc' = "loop"
    /\ UNCHANGED <<culprit_lines, file_lines, groups>>
    /\ UNCHANGED notGroups

\* 129-130: the line continues the open group
GroupsExtend ==
    /\ group_pc = "loop"
    /\ next_culprit <= Len(sorted_culprits)
    /\ ContinuesGroup(current_group_lines, sorted_culprits[next_culprit])
    /\ current_group_lines' = Append(current_group_lines, sorted_culprits[next_culprit])
    /\ next_culprit' = next_culprit + 1
    /\ UNCHANGED <<culprit_lines, file_lines, sorted_culprits, groups, group_pc>>
    /\ UNCHANGED notGroups

\* 131-143: the open group is closed and a new one starts at the line
GroupsClose ==
    /\ group_pc = "loop"
    /\ next_culprit <= Len(sorted_culprits)
    /\ ~ContinuesGroup(current_group_lines, sorted_culprits[next_culprit])
    /\ groups' = Append(groups, CreateSingleGroup(current_group_lines, file_lines,
                                                  TestChange(culprit_lines)))
    /\ current_group_lines' = <<sorted_culprits[next_culprit]>>
    /\ next_culprit' = next_culprit + 1
    /\ UNCHANGED <<culprit_lines, file_lines, sorted_culprits, group_pc>>
    /\ UNCHANGED notGroups

\* 146-155: the last group, and the return
GroupsReturn ==
    /\ group_pc = "loop"
    /\ next_culprit > Len(sorted_culprits)
    /\ groups' = Append(groups, CreateSingleGroup(current_group_lines, file_lines,
                                                  TestChange(culprit_lines)))
    /\ group_pc' = "returned"
    /\ UNCHANGED <<culprit_lines, file_lines, sorted_culprits, next_culprit,
                   current_group_lines>>
    /\ UNCHANGED notGroups

GroupsNext ==
    \/ GroupsReturnEmpty
    \/ GroupsStart
    \/ GroupsExtend
    \/ GroupsClose
    \/ GroupsReturn

SpecGroups == GroupsInit /\ [][GroupsNext]_vars

-----------------------------------------------------------------------------
(* BlameIntersector.intersect (blame_intersector.py 29-96), one step per file of
   the coverage map *)

MaxCovLine == 2

PathDotF == <<".", "/", "f">>

\* LineStatus (models/__init__.py 8-13)
Statuses == {"covered", "uncovered", "partial"}

\* a variant that also takes the partially covered lines
GetNotCoveredLines(self) ==
    {self.lines[i].line_number :
        i \in {j \in DOMAIN self.lines :
                 self.lines[j].status # "covered"}}

\* FileCoverage.get_uncovered_lines (models/__init__.py 40-46)
GetUncoveredLines(self) ==
    {self.lines[i].line_number :
        i \in {j \in DOMAIN self.lines :
                 self.lines[j].status = "uncovered"}}

\* None, where a GitChange is expected
NoneChange == [none |-> TRUE]

\* 56: git_changes.get(file_path)
DictGet(m, file_path) ==
    IF file_path \in DOMAIN m THEN m[file_path] ELSE NoneChange

\* a variant that does not look at the change map
CulpritLinesWithoutChanges(uncovered_lines, change) ==
    uncovered_lines

\* 57-61: a GitChange is always truthy, None is not
CulpritLines(uncovered_lines, change) ==
    IF change # NoneChange
    THEN uncovered_lines \cap change.line_numbers
    ELSE {}

\* 83-88
BlameResult(file_path, uncovered_lines, culprits, gs) ==
    [file_path |-> file_path,
     total_uncovered_lines |-> Cardinality(uncovered_lines),
     uncovered_in_changes |-> Cardinality(culprits),
     blame_groups |-> gs]

\* a variant that puts a result before the results with an equal key
InsertBeforeEqual(sorted, r) ==
    LET before == {i \in 1..Len(sorted) :
                     sorted[i].uncovered_in_changes > r.uncovered_in_changes}
        k == Cardinality(before)
    IN  SubSeq(sorted, 1, k) \o <<r>> \o SubSeq(sorted, k + 1, Len(sorted))

\* 92-96: sorted(results, key=uncovered_in_changes, reverse=True); the sort is
\* stable, so results with equal keys keep their order
InsertByCulprits(sorted, r) ==
    LET before == {i \in 1..Len(sorted) :
                     sorted[i].uncovered_in_changes >= r.uncovered_in_changes}
        k == Cardinality(before)
    IN  SubSeq(sorted, 1, k) \o <<r>> \o SubSeq(sorted, k + 1, Len(sorted))

RECURSIVE SortByCulprits(_)
SortByCulprits(rs) ==
    IF rs = <<>> THEN <<>>
    ELSE InsertByCulprits(SortByCulprits(SubSeq(rs, 1, Len(rs) - 1)), rs[Len(rs)])

\* the inputs of intersect

\* LineInfo as CoberturaParser.parse builds it (cobertura_parser.py 96-110)
LineInfo(n, status) ==
    [line_number |-> n, status |-> status,
     hits |-> IF status = "covered" THEN 1 ELSE 0]

\* the lines of a FileCoverage: line n is listed with status st[n], or not at all
LinesListed(st) ==
    LET all == [n \in 1..MaxCovLine |-> [n |-> n, st |-> st[n]]]
        listed == SelectSeq(all, LAMBDA e : e.st # "absent")
    IN  [i \in 1..Len(listed) |-> LineInfo(listed[i].n, listed[i].st)]

\* cobertura_parser.py 117-118: only files with at least one line are kept
CoverageLists ==
    {LinesListed(st) : st \in [1..MaxCovLine -> Statuses \cup {"absent"}]} \ {<<>>}

\* the lists without a partially covered line
PlainCoverageLists ==
    {ls \in CoverageLists : \A i \in DOMAIN ls : ls[i].status # "partial"}

FileCoverage(p, ls) == [file_path |-> p, lines |-> ls]

\* coverage maps of at most two files: f, under one of two spellings of its
\* path, and g, which has no partially covered line, in either order
CoverageMaps ==
    LET Fs == {FileCoverage(p, ls) : p \in {PathF, PathDotF}, ls \in CoverageLists}
        Gs == {FileCoverage(PathG, ls) : ls \in PlainCoverageLists}
    IN  {<<>>} \cup {<<a>> : a \in Fs \cup Gs}
        \cup {<<a, b>> : a \in Fs, b \in Gs} \cup {<<b, a>> : a \in Fs, b \in Gs}

\* a GitChange of the change map (git_analyzer.py 142-149 only stores files with
\* at least one changed line)
ChangeOf(p, ls) ==
    [file_path |-> p, line_numbers |-> ls, author |-> "Test",
     commit_hash |-> "abc123", commit_date |-> "", commit_message |-> ""]

ChangedSets == (SUBSET (1..MaxCovLine)) \ {{}}

ChangeMaps ==
    {[p \in K |-> ChangeOf(p, ls[p])] : K \in SUBSET Paths, ls \in [Paths -> ChangedSets]}

\* 65-73: the file's lines, or none if it does not exist or cannot be read
FilesRead == {<<>>, FileOfLength(MaxCovLine)}

IntersectInit ==
    /\ RunIdle
    /\ ModelsIdle
    /\ CliIdle
    /\ CobIdle
    /\ ParserIdle
    /\ GroupsIdle
    /\ GitIdle
    /\ coverage_data \in CoverageMaps
    /\ git_changes \in ChangeMaps
    /\ file_idx = 1
    /\ results = <<>>
    /\ inter_pc = "loop"

InLoop == inter_pc = "loop" /\ file_idx <= Len(coverage_data)

\* 52-53: no uncovered line: continue
IntersectSkipCovered ==
    /\ InLoop
    /\ GetUncoveredLines(coverage_data[file_idx]) = {}
    /\ file_idx' = file_idx + 1
    /\ UNCHANGED <<coverage_data, git_changes, results, inter_pc>>
    /\ UNCHANGED notIntersect

\* 63: no culprit line: nothing is appended
IntersectNoCulprit ==
    /\ InLoop
    /\ LET fc == coverage_data[file_idx]
           uncovered_lines == GetUncoveredLines(fc)
       IN  /\ uncovered_lines # {}
           /\ CulpritLines(uncovered_lines, DictGet(git_changes, fc.file_path)) = {}
    /\ file_idx' = file_idx + 1
    /\ UNCHANGED <<coverage_data, git_changes, results, inter_pc>>
    /\ UNCHANGED notIntersect

\* 63-90: the file is read, the groups are built and a result is appended
IntersectEmit ==
    /\ InLoop
    /\ LET fc == coverage_data[file_idx]
           uncovered_lines == GetUncoveredLines(fc)
           change == DictGet(git_changes, fc.file_path)
           culprits == CulpritLines(uncovered_lines, change)
       IN  /\ uncovered_lines # {}
           /\ culprits # {}
           /\ \E fl \in FilesRead :
                results' = Append(results,
                    BlameResult(fc.file_path, uncovered_lines, culprits,
                                CreateBlameGroups(culprits, fl, change)))
    /\ file_idx' = file_idx + 1
    /\ UNCHANGED <<coverage_data, git_changes, inter_pc>>
    /\ UNCHANGED notIntersect

\* 92-96
IntersectReturn ==
    /\ inter_pc = "loop"
    /\ file_idx > Len(coverage_data)
    /\ results' = SortByCulprits(results)
    /\ inter_pc' = "returned"
    /\ UNCHANGED <<coverage_data, git_changes, file_idx>>
    /\ UNCHANGED notIntersect

IntersectNext ==
    \/ IntersectSkipCovered
    \/ IntersectNoCulprit
    \/ IntersectEmit
    \/ IntersectReturn

SpecIntersect == IntersectInit /\ [][IntersectNext]_vars

-----------------------------------------------------------------------------
(* The repository GitAnalyzer reads (git_analyzer.py 29, 100, 123-130): a linear
   history whose root commit creates the files f and g and whose later commits
   each edit them.  history lists the commits as iter_commits yields them, the
   tip first and the root last, so the parent of history[i] is history[i + 1].
   Every line of every file has the text "x" but for the lines a "plusplus"
   commit adds. *)

MaxCommits == 3

\* datetime.now() (49), in days
Now == 5
\* how many days before Now a commit was made
CommitAges == {0, 2}
\* the values of the days parameter
Lookbacks == {1, 2}
\* the values of the max_workers parameter
WorkerCounts == {1, 2}

\* the number of lines of file F in the root commit
RootLines(F) == IF F = PathF THEN 2 ELSE 1

\* what a commit after the root does: "append" adds a line at the end of f and of
\* g, "delete" removes the first line of f, "plusplus" puts the three lines "x",
\* "++x", "x" at the top of f
EditKinds == {"append", "delete", "plusplus"}

\* by how many lines a commit changes the length of file F
Delta(edit, F) ==
    CASE edit = "root" -> RootLines(F)
      [] edit = "append" -> 1
      [] edit = "delete" -> IF F = PathF THEN -1 ELSE 0
      [] edit = "plusplus" -> IF F = PathF THEN 3 ELSE 0

\* the number of lines of F in the tree of commit h[i]; 0 past the root
RECURSIVE TreeLines(_, _, _)
TreeLines(h, i, F) ==
    IF i > Len(h) THEN 0 ELSE TreeLines(h, i + 1, F) + Delta(h[i].edit, F)

\* the attributes of the k-th commit of the repository, the root being the first
Commit(k, age, edit) ==
    [hexsha |-> <<DigitChar(k), "a", "b", "c", "d", "e", "f", "0", "1">>,
     author |-> IF k % 2 = 1 THEN "alice" ELSE "bob",
     committed_date |-> Now - age,
     message |-> <<"m", DigitChar(k), "\n", "b", "o", "d", "y">>,
     edit |-> edit]

\* the greatest age
OldestAge == CHOOSE a \in CommitAges : \A b \in CommitAges : b <= a

\* the histories of n commits: the root is of the greatest age, and no commit
\* leaves f without a line
HistoriesOf(n) ==
    {h \in {[i \in 1..n |-> IF i = n THEN Commit(1, OldestAge, "root")
                                     ELSE Commit(n - i + 1, age[i], edit[i])] :
                age \in [1..n -> CommitAges], edit \in [1..n -> EditKinds]} :
        \A i \in 1..n : h[i].edit = "delete" => TreeLines(h, i + 1, PathF) >= 2}

Histories == UNION {HistoriesOf(n) : n \in 1..MaxCommits}

(* self.repo.git.diff(parent_sha, commit.hexsha, unified=999) (126-130): with
   999 lines of context every changed file has one hunk that shows the whole
   file.  The text is a sequence of lines, as split("\n") gives them. *)

Repeat(n, x) == [i \in 1..n |-> x]

\* one side of a hunk header: the count is left out when it is 1, the start is 0
\* when the side has no line
Range(start, count) ==
    IF count = 1 THEN NatChars(start)
    ELSE NatChars(IF count = 0 THEN 0 ELSE start) \o <<",">> \o NatChars(count)

\* "@@ -1,<old> +1,<new> @@"
HunkHeader(old, new) ==
    <<"@", "@", " ", "-">> \o Range(1, old) \o <<" ", "+">> \o Range(1, new)
        \o <<" ", "@", "@">>

\* the section of file F, which had old lines and has new: "diff --git", "index",
\* "--- a/F" or "--- /dev/null", "+++ b/F", the hunk header, the hunk
Section(F, old, new, body) ==
    << DiffGitLine(F).text,
       <<"i", "n", "d", "e", "x", " ", "0", ".", ".", "1">>,
       IF old = 0 THEN <<"-", "-", "-", " ", "/", "d", "e", "v", "/", "n", "u", "l", "l">>
                  ELSE MinusLine(F).text,
       PlusLine(F).text,
       HunkHeader(old, new) >> \o body

Ctx == <<" ", "x">>
Add == <<"+", "x">>
Del == <<"-", "x">>
AddPlusPlus == <<"+", "+", "+", "x">>

\* the diff of commit h[i] against its parent, or against the empty tree (123)
DiffText(h, i) ==
    LET nf == TreeLines(h, i + 1, PathF)
        ng == TreeLines(h, i + 1, PathG)
        edit == h[i].edit
    IN  CASE edit = "root" ->
                Section(PathF, 0, RootLines(PathF), Repeat(RootLines(PathF), Add))
                \o Section(PathG, 0, RootLines(PathG), Repeat(RootLines(PathG), Add))
          [] edit = "append" ->
                Section(PathF, nf, nf + 1, Repeat(nf, Ctx) \o <<Add>>)
                \o Section(PathG, ng, ng + 1, Repeat(ng, Ctx) \o <<Add>>)
          [] edit = "delete" ->
                Section(PathF, nf, nf - 1, <<Del>> \o Repeat(nf - 1, Ctx))
          [] edit = "plusplus" ->
                Section(PathF, nf, nf + 3,
                        <<Add, AddPlusPlus, Add>> \o Repeat(nf, Ctx))

\* the line numbers commit h[i] adds to file F, in its own tree
AddedBy(h, i, F) ==
    LET n == TreeLines(h, i + 1, F)
        edit == h[i].edit
    IN  CASE edit = "root" -> 1..RootLines(F)
          [] edit = "append" -> {n + 1}
          [] edit = "delete" -> {}
          [] edit = "plusplus" -> IF F = PathF THEN 1..3 ELSE {}

(* GitAnalyzer._process_commit (110-156) *)

\* s[:n]
Take(s, n) == SubSeq(s, 1, Min(n, Len(s)))

\* s.split("\n")[0]
FirstLine(s) ==
    LET nl == {i \in 1..Len(s) : s[i] = "\n"}
    IN  IF nl = {} THEN s
        ELSE SubSeq(s, 1, (CHOOSE i \in nl : \A j \in nl : i <= j) - 1)

\* datetime.fromtimestamp(t).isoformat(), for a time in days
IsoFormat(t) == <<"d", "a", "y", " ">> \o NatChars(t)

\* 141-150
GitChange(file_path, changed_lines, commit) ==
    [file_path |-> file_path,
     line_numbers |-> changed_lines,
     author |-> commit.author,
     commit_hash |-> Take(commit.hexsha, 7),
     commit_date |-> IsoFormat(commit.committed_date),
     commit_message |-> FirstLine(commit.message)]

\* 139-140: only the files with changed lines
KeptFiles(changed_lines_by_file) ==
    {F \in DOMAIN changed_lines_by_file : changed_lines_by_file[F] # {}}

\* a variant without the handler's effect: the map is built whether or not an
\* exception is raised
ProcessCommitKeepingOnRaise(h, i, raises) ==
    LET changed_lines_by_file == ParseUnifiedDiff(DiffText(h, i))
    IN  [F \in KeptFiles(changed_lines_by_file) |->
             GitChange(F, changed_lines_by_file[F], h[i])]

\* The map _process_commit returns for commit h[i].  raises: git diff or the
\* decoding of a commit attribute raises (126, 144-149); the handler at 152
\* leaves changes as it is, and nothing is in it before the loop at 139.
ProcessCommit(h, i, raises) ==
    IF raises THEN EmptyMap
    ELSE LET diff_text == DiffText(h, i) IN
         IF diff_text = <<>> THEN EmptyMap
         ELSE LET changed_lines_by_file == ParseUnifiedDiff(diff_text)
              IN  [F \in KeptFiles(changed_lines_by_file) |->
                       GitChange(F, changed_lines_by_file[F], h[i])]

(* GitAnalyzer.get_recent_changes (35-87) and _get_commits_since (89-108).
   iter_commits is taken not to raise: the handler at 105-106 would return the
   commits collected up to the exception. *)

\* 49
CutoffDate == Now - days

\* a variant that also stops at a commit made exactly at the cutoff
OlderOrAtCutoff(commit_date, cutoff_date) == commit_date <= cutoff_date

\* 102: commit_date < cutoff_date
Older(commit_date, cutoff_date) == commit_date < cutoff_date

\* a variant in which the later commit replaces the record
MergeFileReplacing(old, change) == change

\* a variant in which the later commit gives the provenance
MergeFileLastWriter(old, change) ==
    [change EXCEPT !.line_numbers = old.line_numbers \cup change.line_numbers]

\* 78-82: the record is the first commit's, its line_numbers grow
MergeFile(old, change) ==
    [old EXCEPT !.line_numbers = @ \cup change.line_numbers]

\* 75-82: the merge of one future's result into changes
MergeChanges(m, commit_changes) ==
    [F \in DOMAIN m \cup DOMAIN commit_changes |->
        IF F \notin DOMAIN m THEN commit_changes[F]
        ELSE IF F \in DOMAIN commit_changes THEN MergeFile(m[F], commit_changes[F])
        ELSE m[F]]

GitInit ==
    /\ RunIdle
    /\ ModelsIdle
    /\ CliIdle
    /\ CobIdle
    /\ ParserIdle
    /\ GroupsIdle
    /\ IntersectIdle
    /\ history \in Histories
    /\ days \in Lookbacks
    /\ max_workers \in WorkerCounts
    /\ walk_pos = 0
    /\ commits = <<>>
    /\ futures = <<>>
    /\ changes = EmptyMap
    /\ merged = <<>>
    /\ git_pc = "walk"

\* 100-104: the next commit is not older than the cutoff and is appended
WalkTake ==
    /\ git_pc = "walk"
    /\ walk_pos < Len(history)
    /\ ~Older(history[walk_pos + 1].committed_date, CutoffDate)
    /\ commits' = Append(commits, walk_pos + 1)
    /\ walk_pos' = walk_pos + 1
    /\ UNCHANGED <<history, days, max_workers, futures, changes, merged, git_pc>>
    /\ UNCHANGED notGit

\* a variant that passes over an older commit and goes on with the walk
WalkPassingOlder ==
    /\ git_pc = "walk"
    /\ walk_pos < Len(history)
    /\ Older(history[walk_pos + 1].committed_date, CutoffDate)
    /\ walk_pos' = walk_pos + 1
    /\ UNCHANGED <<history, days, max_workers, commits, futures, changes, merged,
                   git_pc>>
    /\ UNCHANGED notGit

\* 102-103: the next commit is older than the cutoff: break
WalkBreak ==
    /\ git_pc = "walk"
    /\ walk_pos < Len(history)
    /\ Older(history[walk_pos + 1].committed_date, CutoffDate)
    /\ git_pc' = "submit"
    /\ UNCHANGED <<history, days, max_workers, walk_pos, commits, futures, changes,
                   merged>>
    /\ UNCHANGED notGit

\* 100: iter_commits has no more commit
WalkEnd ==
    /\ git_pc = "walk"
    /\ walk_pos = Len(history)
    /\ git_pc' = "submit"
    /\ UNCHANGED <<history, days, max_workers, walk_pos, commits, futures, changes,
                   merged>>
    /\ UNCHANGED notGit

\* 57-62: one task per commit is submitted to the pool
Submit ==
    /\ git_pc = "submit"
    /\ futures' = [j \in 1..Len(commits) |->
                      [state |-> "pending", raised |-> FALSE, result |-> EmptyMap]]
    /\ git_pc' = "pool"
    /\ UNCHANGED <<history, days, max_workers, walk_pos, commits, changes, merged>>
    /\ UNCHANGED notGit

InState(st) == {j \in DOMAIN futures : futures[j].state = st}

\* a worker thread takes the oldest task of the queue; the pool has at most
\* max_workers threads (57)
StartTask ==
    /\ git_pc = "pool"
    /\ Cardinality(InState("running")) < max_workers
    /\ \E j \in InState("pending") :
          /\ \A k \in InState("pending") : j <= k
          /\ futures' = [futures EXCEPT ![j].state = "running"]
    /\ UNCHANGED <<history, days, max_workers, walk_pos, commits, changes, merged,
                   git_pc>>
    /\ UNCHANGED notGit

\* a variant in which the worker merges its map into the shared map itself
FinishTaskWritingShared ==
    /\ git_pc = "pool"
    /\ \E j \in InState("running") : \E raises \in BOOLEAN :
          LET file_changes == ProcessCommit(history, commits[j], raises) IN
          /\ futures' = [futures EXCEPT
                            ![j] = [state |-> "done", raised |-> raises,
                                    result |-> file_changes]]
          /\ changes' = MergeChanges(changes, file_changes)
    /\ UNCHANGED <<history, days, max_workers, walk_pos, commits, merged, git_pc>>
    /\ UNCHANGED notGit

\* a worker thread returns from _process_commit (110-156)
FinishTask ==
    /\ git_pc = "pool"
    /\ \E j \in InState("running") : \E raises \in BOOLEAN :
          futures' = [futures EXCEPT
                         ![j] = [state |-> "done", raised |-> raises,
                                 result |-> ProcessCommit(history, commits[j], raises)]]
    /\ UNCHANGED <<history, days, max_workers, walk_pos, commits, changes, merged,
                   git_pc>>
    /\ UNCHANGED notGit

\* 65-85: as_completed yields a finished future and its result is merged
MergeResult ==
    /\ git_pc = "pool"
    /\ \E j \in InState("done") :
          /\ changes' = MergeChanges(changes, futures[j].result)
          /\ merged' = Append(merged, j)
          /\ futures' = [futures EXCEPT ![j].state = "merged"]
    /\ UNCHANGED <<history, days, max_workers, walk_pos, commits, git_pc>>
    /\ UNCHANGED notGit

\* 87: every future has been merged
GitReturn ==
    /\ git_pc = "pool"
    /\ InState("merged") = DOMAIN futures
    /\ git_pc' = "returned"
    /\ UNCHANGED <<history, days, max_workers, walk_pos, commits, futures, changes,
                   merged>>
    /\ UNCHANGED notGit

GitNext ==
    \/ WalkTake
    \/ WalkBreak
    \/ WalkEnd
    \/ Submit
    \/ StartTask
    \/ FinishTask
    \/ MergeResult
    \/ GitReturn

SpecGit == GitInit /\ [][GitNext]_vars

-----------------------------------------------------------------------------
(* CoberturaParser (core/cobertura_parser.py) *)

\* an attribute the element does not have: elem.get(name) is None
NoneAttr == <<"None">>

\* elem.get(name, default)
AttrGet(attr, default) == IF attr = NoneAttr THEN default ELSE attr

\* s.split on any of the characters seps
RECURSIVE Split(_, _)
Split(s, seps) ==
    IF \A i \in 1..Len(s) : s[i] \notin seps THEN <<s>>
    ELSE LET k == CHOOSE i \in 1..Len(s) :
                      s[i] \in seps /\ \A j \in 1..(i - 1) : s[j] \notin seps
         IN  <<SubSeq(s, 1, k - 1)>> \o Split(SubSeq(s, k + 1, Len(s)), seps)

\* sep.join(parts)
RECURSIVE Join(_, _)
Join(parts, sep) ==
    IF parts = <<>> THEN <<>>
    ELSE IF Len(parts) = 1 THEN parts[1]
    ELSE parts[1] \o <<sep>> \o Join(Tail(parts), sep)

\* s.replace(old, new) for one-character old and new
Replace(s, old, new) == [i \in 1..Len(s) |-> IF s[i] = old THEN new ELSE s[i]]

\* pathlib: the separators a flavour splits a path on, and the one it writes
Seps(flavour) == IF flavour = "nt" THEN {"\\", "/"} ELSE {"/"}
Sep(flavour) == IF flavour = "nt" THEN "\\" ELSE "/"

\* Path(s): the drive (Windows only), whether the path has a root, and its parts;
\* empty and "." components are dropped
PurePath(flavour, s) ==
    LET drive == IF flavour = "nt" /\ Len(s) >= 2 /\ s[2] = ":"
                 THEN SubSeq(s, 1, 2) ELSE <<>>
        rest == SubSeq(s, Len(drive) + 1, Len(s))
    IN  [drive |-> drive,
         root |-> rest # <<>> /\ rest[1] \in Seps(flavour),
         parts |-> SelectSeq(Split(rest, Seps(flavour)),
                             LAMBDA c : c # <<>> /\ c # <<".">>)]

\* path.is_absolute()
IsAbsolute(flavour, path) ==
    IF flavour = "nt" THEN path.drive # <<>> /\ path.root ELSE path.root

\* str(path)
PathStr(flavour, path) ==
    LET full == path.drive \o (IF path.root THEN <<Sep(flavour)>> ELSE <<>>)
                    \o Join(path.parts, Sep(flavour))
    IN  IF full = <<>> THEN <<".">> ELSE full

\* path.relative_to(other): ok is FALSE where it raises ValueError
RelativeTo(path, other) ==
    LET n == Len(other.parts)
        ok == /\ path.drive = other.drive
              /\ path.root = other.root
              /\ n <= Len(path.parts)
              /\ SubSeq(path.parts, 1, n) = other.parts
    IN  [ok |-> ok,
         path |-> [drive |-> <<>>, root |-> FALSE,
                   parts |-> IF ok THEN SubSeq(path.parts, n + 1, Len(path.parts))
                             ELSE <<>>]]

\* path.name
PathName(path) ==
    IF path.parts = <<>> THEN <<>> ELSE path.parts[Len(path.parts)]

\* 31-55: CoberturaParser._normalize_path
NormalizePath(file_path, flavour, root) ==
    LET path == PurePath(flavour, file_path) IN
    IF IsAbsolute(flavour, path)
    THEN LET relative == RelativeTo(path, PurePath(flavour, root)) IN
         IF relative.ok
         THEN Replace(PathStr(flavour, relative.path), "\\", "/")
         ELSE PathName(path)
    ELSE Replace(PathStr(flavour, path), "\\", "/")

\* 82-83: "C:\\workspace\\"
WorkspacePrefix ==
    <<"C", ":", "\\", "w", "o", "r", "k", "s", "p", "a", "c", "e", "\\">>

\* 82-83: the prefix is put before a filename that does not start with it
WithWorkspacePrefix(file_path) ==
    IF StartsWith(file_path, WorkspacePrefix) THEN file_path
    ELSE WorkspacePrefix \o file_path

\* 82-86: the key a class element's filename is stored under
FileKey(filename, flavour, root) ==
    NormalizePath(WithWorkspacePrefix(filename), flavour, root)

\* int(s): an optional sign and at least one decimal digit
PyInt(s) ==
    LET signed == s # <<>> /\ s[1] \in {"+", "-"}
        body == IF signed THEN Tail(s) ELSE s
        ok == body # <<>> /\ \A i \in 1..Len(body) : body[i] \in Digits
    IN  [ok |-> ok,
         val |-> IF ~ok THEN 0
                 ELSE IF s[1] = "-" THEN 0 - ToInt(body) ELSE ToInt(body)]

\* float(s): an optional sign, decimal digits and at most one point, at least one
\* digit; the value is unscaled / 10^scale
PyFloat(s) ==
    LET signed == s # <<>> /\ s[1] \in {"+", "-"}
        body == IF signed THEN Tail(s) ELSE s
        pieces == Split(body, {"."})
        digits == IF Len(pieces) = 2 THEN pieces[1] \o pieces[2] ELSE pieces[1]
        ok == /\ Len(pieces) <= 2
              /\ digits # <<>>
              /\ \A i \in 1..Len(digits) : digits[i] \in Digits
    IN  [ok |-> ok,
         unscaled |-> IF ~ok THEN 0
                      ELSE IF s[1] = "-" THEN 0 - ToInt(digits) ELSE ToInt(digits),
         scale |-> IF ok /\ Len(pieces) = 2 THEN Len(pieces[2]) ELSE 0]

\* 107-111: LineInfo(line_number=, status=, hits=)
ParsedLineInfo(line_number, status, hits) ==
    [line_number |-> line_number, status |-> status, hits |-> hits]

\* the line element raised ValueError and is passed over (114-115)
Skipped == [ok |-> FALSE, line_info |-> ParsedLineInfo(0, "uncovered", 0)]

Recorded(line_info) == [ok |-> TRUE, line_info |-> line_info]

\* a variant that takes a line for covered when hits is not negative
ParseLineElemZeroCovered(line_elem) ==
    LET line_number == PyInt(AttrGet(line_elem.number, <<"0">>))
        hits == PyInt(AttrGet(line_elem.hits, <<"0">>))
        branch_rate == line_elem.branch_rate
    IN  IF ~line_number.ok THEN Skipped
        ELSE IF ~hits.ok THEN Skipped
        ELSE IF hits.val >= 0
        THEN Recorded(ParsedLineInfo(line_number.val, "covered", hits.val))
        ELSE IF branch_rate # NoneAttr /\ branch_rate # <<>>
        THEN IF ~PyFloat(branch_rate).ok THEN Skipped
             ELSE IF PyFloat(branch_rate).unscaled > 0
             THEN Recorded(ParsedLineInfo(line_number.val, "partial", hits.val))
             ELSE Recorded(ParsedLineInfo(line_number.val, "uncovered", hits.val))
        ELSE Recorded(ParsedLineInfo(line_number.val, "uncovered", hits.val))

\* 92-115: the body of the loop over a class element's line elements
ParseLineElem(line_elem) ==
    LET line_number == PyInt(AttrGet(line_elem.number, <<"0">>))
        hits == PyInt(AttrGet(line_elem.hits, <<"0">>))
        branch_rate == line_elem.branch_rate
    IN  IF ~line_number.ok THEN Skipped
        ELSE IF ~hits.ok THEN Skipped
        ELSE IF hits.val > 0
        THEN Recorded(ParsedLineInfo(line_number.val, "covered", hits.val))
        ELSE IF branch_rate # NoneAttr /\ branch_rate # <<>>
        THEN IF ~PyFloat(branch_rate).ok THEN Skipped
             ELSE IF PyFloat(branch_rate).unscaled > 0
             THEN Recorded(ParsedLineInfo(line_number.val, "partial", hits.val))
             ELSE Recorded(ParsedLineInfo(line_number.val, "uncovered", hits.val))
        ELSE Recorded(ParsedLineInfo(line_number.val, "uncovered", hits.val))

\* FileCoverage.get_covered_lines (models/__init__.py 48-54)
GetCoveredLines(self) ==
    {self.lines[i].line_number :
        i \in {j \in DOMAIN self.lines : self.lines[j].status = "covered"}}

\* 118: coverage_by_file[file_path] = file_coverage; a dict keeps the place of a
\* key it already has
DictPut(m, fc) ==
    IF \E i \in DOMAIN m : m[i].file_path = fc.file_path
    THEN [i \in DOMAIN m |-> IF m[i].file_path = fc.file_path THEN fc ELSE m[i]]
    ELSE Append(m, fc)

\* a variant that also stores a FileCoverage without lines
CloseClassKeepingEmpty(m, fc) == DictPut(m, fc)

\* 117-118: the class element's FileCoverage is stored if it has a line
CloseClass(m, fc) == IF fc.lines # <<>> THEN DictPut(m, fc) ELSE m

\* the reports

MaxElems == 4

ClassElem(filename) == [tag |-> "class", filename |-> filename]

LineElem(number, hits, branch_rate) ==
    [tag |-> "line", number |-> number, hits |-> hits, branch_rate |-> branch_rate]

\* filename attributes: "s/t", "s\t" and "C:\workspace\u"
Filenames ==
    {<<"s", "/", "t">>, <<"s", "\\", "t">>, WorkspacePrefix \o <<"u">>}

\* a class element without a filename, or with an empty one (78-79)
NoFilenames == {NoneAttr, <<>>}

\* line elements as test_parse_simple_coverage has them, with a branch-rate
\* attribute, with attributes that are not numbers, and without attributes
LineElems ==
    {LineElem(<<"1">>, <<"3">>, NoneAttr),
     LineElem(<<"1">>, <<"0">>, NoneAttr),
     LineElem(<<"2">>, <<"0">>, <<"0", ".", "5">>),
     LineElem(<<"2">>, <<"-", "1">>, <<"0", ".", "5">>),
     LineElem(<<"1">>, <<"0">>, <<"0", ".", "0">>),
     LineElem(<<"1">>, <<"0">>, <<>>),
     LineElem(<<"2">>, <<"0">>, <<"x">>),
     LineElem(<<"2">>, <<"3">>, <<"x">>),
     LineElem(<<"x">>, <<"3">>, NoneAttr),
     LineElem(<<"1">>, <<"x">>, NoneAttr),
     LineElem(NoneAttr, NoneAttr, NoneAttr)}

\* 22-29: the platform the tool runs on and the resolved repository root
Envs ==
    {[platform |-> "posix", repo_root |-> <<"/", "r">>],
     [platform |-> "nt", repo_root |-> <<"C", ":", "\\", "w", "o", "r", "k", "s",
                                        "p", "a", "c", "e">>],
     [platform |-> "nt", repo_root |-> <<"C", ":", "\\", "r">>]}

CobInit ==
    /\ RunIdle
    /\ ModelsIdle
    /\ CliIdle
    /\ ParserIdle
    /\ GroupsIdle
    /\ IntersectIdle
    /\ GitIdle
    /\ \E env \in Envs : platform = env.platform /\ repo_root = env.repo_root
    /\ report = <<>>
    /\ coverage_by_file = <<>>
    /\ file_coverage = [none |-> TRUE]
    /\ cob_pc = "classes"

\* 76-79: the next class element has no filename: continue
CobSkipClass ==
    /\ cob_pc = "classes"
    /\ Len(report) < MaxElems
    /\ \E filename \in NoFilenames : report' = Append(report, ClassElem(filename))
    /\ UNCHANGED <<platform, repo_root, coverage_by_file, file_coverage, cob_pc>>
    /\ UNCHANGED notCob

\* 76-88: the next class element has a filename
CobOpenClass ==
    /\ cob_pc = "classes"
    /\ Len(report) < MaxElems
    /\ \E filename \in Filenames :
          /\ report' = Append(report, ClassElem(filename))
          /\ file_coverage' = FileCoverage(FileKey(filename, platform, repo_root), <<>>)
    /\ cob_pc' = "lines"
    /\ UNCHANGED <<platform, repo_root, coverage_by_file>>
    /\ UNCHANGED notCob

\* 91-112: the next line element of the class gives a LineInfo
CobLineRecorded ==
    /\ cob_pc = "lines"
    /\ Len(report) < MaxElems
    /\ \E line_elem \in LineElems :
          /\ ParseLineElem(line_elem).ok
          /\ report' = Append(report, line_elem)
          /\ file_coverage' =
                 [file_coverage EXCEPT
                     !.lines = Append(@, ParseLineElem(line_elem).line_info)]
    /\ UNCHANGED <<platform, repo_root, coverage_by_file, cob_pc>>
    /\ UNCHANGED notCob

\* 114-115: the next line element of the class raises ValueError: continue
CobLineSkipped ==
    /\ cob_pc = "lines"
    /\ Len(report) < MaxElems
    /\ \E line_elem \in LineElems :
          /\ ~ParseLineElem(line_elem).ok
          /\ report' = Append(report, line_elem)
    /\ UNCHANGED <<platform, repo_root, coverage_by_file, file_coverage, cob_pc>>
    /\ UNCHANGED notCob

\* 117-118: the class element has no more line element
CobCloseClass ==
    /\ cob_pc = "lines"
    /\ coverage_by_file' = CloseClass(coverage_by_file, file_coverage)
    /\ cob_pc' = "classes"
    /\ UNCHANGED <<platform, repo_root, report, file_coverage>>
    /\ UNCHANGED notCob

\* 120: the report has no more class element
CobReturn ==
    /\ cob_pc = "classes"
    /\ cob_pc' = "returned"
    /\ UNCHANGED <<platform, repo_root, report, coverage_by_file, file_coverage>>
    /\ UNCHANGED notCob

CobNext ==
    \/ CobSkipClass
    \/ CobOpenClass
    \/ CobLineRecorded
    \/ CobLineSkipped
    \/ CobCloseClass
    \/ CobReturn

SpecCobertura == CobInit /\ [][CobNext]_vars

-----------------------------------------------------------------------------
(* BlamTracker.run (core/blame_tracker.py 31-68), one step per call it makes *)

\* 76-120 of cobertura_parser.py as one function of the elements of the report
ParseElem(st, elem, flavour, root) ==
    IF elem.tag = "class"
    THEN LET closed == IF st.open THEN CloseClass(st.coverage_by_file, st.file_coverage)
                       ELSE st.coverage_by_file
         IN  IF elem.filename = NoneAttr \/ elem.filename = <<>>
             THEN [st EXCEPT !.coverage_by_file = closed, !.open = FALSE]
             ELSE [coverage_by_file |-> closed, open |-> TRUE,
                   file_coverage |->
                       FileCoverage(FileKey(elem.filename, flavour, root), <<>>)]
    ELSE IF st.open /\ ParseLineElem(elem).ok
         THEN [st EXCEPT !.file_coverage.lines =
                             Append(@, ParseLineElem(elem).line_info)]
         ELSE st

RECURSIVE ParseElems(_, _, _, _)
ParseElems(elems, n, flavour, root) ==
    IF n = 0
    THEN [coverage_by_file |-> <<>>, open |-> FALSE,
          file_coverage |-> FileCoverage(<<>>, <<>>)]
    ELSE ParseElem(ParseElems(elems, n - 1, flavour, root), elems[n], flavour, root)

\* CoberturaParser.parse on a report that exists and is well-formed
Parse(elems, flavour, root) ==
    LET st == ParseElems(elems, Len(elems), flavour, root)
    IN  IF st.open THEN CloseClass(st.coverage_by_file, st.file_coverage)
        ELSE st.coverage_by_file

\* git_analyzer.py 89-108: the positions of the commits _get_commits_since takes
RECURSIVE CommitsSince(_, _, _)
CommitsSince(h, i, cutoff_date) ==
    IF i > Len(h) THEN <<>>
    ELSE IF Older(h[i].committed_date, cutoff_date) THEN <<>>
    ELSE <<i>> \o CommitsSince(h, i + 1, cutoff_date)

\* git_analyzer.py 65-85: the results of the tasks merged in the order `order`;
\* the processing of the commits in `failing` raises
RECURSIVE MergeInOrder(_, _, _)
MergeInOrder(h, order, failing) ==
    IF order = <<>> THEN EmptyMap
    ELSE LET i == order[Len(order)]
         IN  MergeChanges(MergeInOrder(h, SubSeq(order, 1, Len(order) - 1), failing),
                          ProcessCommit(h, i, i \in failing))

\* the orders in which as_completed can yield the futures of the commits cs
OrdersOf(cs) ==
    {o \in [1..Len(cs) -> {cs[k] : k \in 1..Len(cs)}] :
        \A a, b \in 1..Len(cs) : a # b => o[a] # o[b]}

\* blame_intersector.py 45-90: the results after the first n files
RECURSIVE IntersectLoop(_, _, _, _)
IntersectLoop(cov, chg, fl, n) ==
    IF n = 0 THEN <<>>
    ELSE LET before == IntersectLoop(cov, chg, fl, n - 1)
             uncovered_lines == GetUncoveredLines(cov[n])
             change == DictGet(chg, cov[n].file_path)
             culprits == CulpritLines(uncovered_lines, change)
         IN  IF uncovered_lines = {} \/ culprits = {} THEN before
             ELSE Append(before,
                         BlameResult(cov[n].file_path, uncovered_lines, culprits,
                                     CreateBlameGroups(culprits, fl, change)))

\* BlameIntersector.intersect, every file read giving the lines fl
Intersect(cov, chg, fl) == SortByCulprits(IntersectLoop(cov, chg, fl, Len(cov)))

\* blame_tracker.py 60-66
BlameAnalysis(days_lookback, repo_path, rs) ==
    [analysis_date |-> IsoFormat(Now), days_lookback |-> days_lookback,
     coverage_file |-> "coverage.xml", repo_path |-> repo_path, results |-> rs]

\* the inputs of run

MaxRunLines == 2
MaxRunCommits == 2

\* line elements for line 1 and line 2 of a file
RunLineElems ==
    {LineElem(<<"1">>, <<"0">>, NoneAttr),
     LineElem(<<"2">>, <<"0">>, NoneAttr),
     LineElem(<<"2">>, <<"3">>, NoneAttr)}

\* the sequences of at most n elements of S
RECURSIVE SeqsUpTo(_, _)
SeqsUpTo(S, n) ==
    IF n = 0 THEN {<<>>}
    ELSE SeqsUpTo(S, n - 1)
         \cup {Append(q, x) : q \in {r \in SeqsUpTo(S, n - 1) : Len(r) = n - 1}, x \in S}

\* reports about f, the file of the repository, and possibly about g
RunReports ==
    {<<>>}
    \cup {<<ClassElem(PathF)>> \o ls \o tail :
             ls \in SeqsUpTo(RunLineElems, MaxRunLines),
             tail \in {<<>>, <<ClassElem(PathG), LineElem(<<"1">>, <<"0">>, NoneAttr)>>}}

\* what can be at the coverage path: nothing, a document that is not well-formed
\* (its elements are those before the error), or a report
CoverageFiles ==
    {[exists |-> FALSE, well_formed |-> FALSE, elems |-> <<>>]}
    \cup {[exists |-> TRUE, well_formed |-> w, elems |-> r] :
             w \in BOOLEAN, r \in RunReports}

\* what can be at the repository path: something Repo() rejects, or a repository
Repos ==
    {[valid |-> FALSE, history |-> <<>>]}
    \cup {[valid |-> TRUE, history |-> h] :
             h \in UNION {HistoriesOf(n) : n \in 1..MaxRunCommits}}

RunInit ==
    /\ ModelsIdle
    /\ CliIdle
    /\ ParserIdle
    /\ GroupsIdle
    /\ IntersectIdle
    /\ GitIdle
    /\ \E env \in Envs : platform = env.platform /\ repo_root = env.repo_root
    /\ report = <<>>
    /\ coverage_by_file = <<>>
    /\ file_coverage = [none |-> TRUE]
    /\ cob_pc = "idle"
    /\ coverage_file \in CoverageFiles
    /\ repo \in Repos
    /\ run_days \in Lookbacks
    /\ run_coverage = NotYet
    /\ run_changes = NotYet
    /\ run_results = NotYet
    /\ analysis = [none |-> TRUE]
    /\ raised = "None"
    /\ run_pc = "parse"

\* 44, cobertura_parser.py 67-68: the coverage file does not exist
RunParseNotFound ==
    /\ run_pc = "parse"
    /\ ~coverage_file.exists
    /\ raised' = "FileNotFoundError"
    /\ run_pc' = "raised"
    /\ UNCHANGED <<coverage_file, repo, run_days, run_coverage, run_changes,
                   run_results, analysis>>
    /\ UNCHANGED notRun

\* a variant in which parse recovers what it can read of the document
RunParseMalformedRecovering ==
    /\ run_pc = "parse"
    /\ coverage_file.exists
    /\ ~coverage_file.well_formed
    /\ run_coverage' = Parse(coverage_file.elems, platform, repo_root)
    /\ run_pc' = "mine"
    /\ UNCHANGED <<coverage_file, repo, run_days, run_changes, run_results,
                   analysis, raised>>
    /\ UNCHANGED notRun

\* 44, cobertura_parser.py 70: etree.parse raises on a document that is not
\* well-formed
RunParseMalformed ==
    /\ run_pc = "parse"
    /\ coverage_file.exists
    /\ ~coverage_file.well_formed
    /\ raised' = "XMLSyntaxError"
    /\ run_pc' = "raised"
    /\ UNCHANGED <<coverage_file, repo, run_days, run_coverage, run_changes,
                   run_results, analysis>>
    /\ UNCHANGED notRun

\* 43-44: coverage_data = parser.parse()
RunParse ==
    /\ run_pc = "parse"
    /\ coverage_file.exists
    /\ coverage_file.well_formed
    /\ run_coverage' = Parse(coverage_file.elems, platform, repo_root)
    /\ run_pc' = "mine"
    /\ UNCHANGED <<coverage_file, repo, run_days, run_changes, run_results,
                   analysis, raised>>
    /\ UNCHANGED notRun

\* 49, git_analyzer.py 28-31: GitAnalyzer(self.repo_path) raises ValueError
RunInvalidRepo ==
    /\ run_pc = "mine"
    /\ ~repo.valid
    /\ raised' = "ValueError"
    /\ run_pc' = "raised"
    /\ UNCHANGED <<coverage_file, repo, run_days, run_coverage, run_changes,
                   run_results, analysis>>
    /\ UNCHANGED notRun

\* 49-50: git_changes = git_analyzer.get_recent_changes(self.days)
RunMine ==
    /\ run_pc = "mine"
    /\ repo.valid
    /\ LET cs == CommitsSince(repo.history, 1, Now - run_days) IN
       \E order \in OrdersOf(cs) : \E failing \in SUBSET {cs[k] : k \in 1..Len(cs)} :
           run_changes' = MergeInOrder(repo.history, order, failing)
    /\ run_pc' = "intersect"
    /\ UNCHANGED <<coverage_file, repo, run_days, run_coverage, run_results,
                   analysis, raised>>
    /\ UNCHANGED notRun

\* 55-56: results = intersector.intersect(coverage_data, git_changes)
RunIntersect ==
    /\ run_pc = "intersect"
    /\ \E fl \in FilesRead :
          run_results' = Intersect(run_coverage, run_changes, fl)
    /\ run_pc' = "build"
    /\ UNCHANGED <<coverage_file, repo, run_days, run_coverage, run_changes,
                   analysis, raised>>
    /\ UNCHANGED notRun

\* 60-68: the BlameAnalysis is built and returned
RunReturn ==
    /\ run_pc = "build"
    /\ analysis' = BlameAnalysis(run_days, repo_root, run_results)
    /\ run_pc' = "returned"
    /\ UNCHANGED <<coverage_file, repo, run_days, run_coverage, run_changes,
                   run_results, raised>>
    /\ UNCHANGED notRun

RunNext ==
    \/ RunParseNotFound
    \/ RunParseMalformed
    \/ RunParse
    \/ RunInvalidRepo
    \/ RunMine
    \/ RunIntersect
    \/ RunReturn

SpecRun == RunInit /\ [][RunNext]_vars

-----------------------------------------------------------------------------
(* The data models (models/__init__.py): LineInfo, GitChange, BlameAnalysis *)

\* hash(n) of an int of magnitude below 2^61 - 1: n itself, but -2 for -1
PyHashInt(n) == IF n = 0 - 1 THEN 0 - 2 ELSE n

\* hash(s) of a str: equal texts have equal hashes, and the few texts of the
\* model are taken to have different ones
PyHashStr(s) == s

\* LineInfo.__hash__ (24-25)
LineInfoHash(self) == PyHashInt(self.line_number)

\* a variant: the comparison a dataclass generates, by the tuple of the fields
LineInfoEqByFields(self, other) ==
    <<self.line_number, self.status, self.hits>>
        = <<other.line_number, other.status, other.hits>>

\* LineInfo.__eq__ (27-30), other being a LineInfo
LineInfoEq(self, other) == self.line_number = other.line_number

\* GitChange.__hash__ (68-69)
GitChangeHash(self) == PyHashStr(self.file_path)

\* GitChange.__eq__: the class defines none, so it is the one @dataclass
\* generates (57-66), which compares the tuples of all the fields
GitChangeEq(self, other) ==
    <<self.file_path, self.line_numbers, self.author, self.commit_hash,
      self.commit_date, self.commit_message>>
        = <<other.file_path, other.line_numbers, other.author, other.commit_hash,
            other.commit_date, other.commit_message>>

\* set.add(x) on a set of LineInfo: x is left out when the set has an element
\* with the same hash that compares equal to it
LineInfoSetWith(s, x) ==
    IF \E y \in s : LineInfoHash(y) = LineInfoHash(x) /\ LineInfoEq(y, x)
    THEN s ELSE s \cup {x}

\* set.add(x) on a set of GitChange
GitChangeSetWith(s, x) ==
    IF \E y \in s : GitChangeHash(y) = GitChangeHash(x) /\ GitChangeEq(y, x)
    THEN s ELSE s \cup {x}

\* s[:n]
SliceTo(s, n) ==
    IF n >= 0 THEN Take(s, n) ELSE SubSeq(s, 1, Max(Len(s) + n, 0))

\* a variant that does not sort
GetTopCulpritsUnsorted(rs, limit) == SliceTo(rs, limit)

\* BlameAnalysis.get_top_culprits (147-153)
GetTopCulprits(rs, limit) == SliceTo(SortByCulprits(rs), limit)

\* the inputs

MaxResults == 3

\* line numbers, with the two whose hashes are equal
LineNumbers == {0 - 2, 0 - 1, 1, 2}

LineInfos == {LineInfo(n, st) : n \in LineNumbers, st \in {"covered", "uncovered"}}

GitChanges ==
    {GitChange(F, ls, c) :
        F \in Paths, ls \in {{1}, {2}},
        c \in {Commit(1, 0, "root"), Commit(2, 0, "append")}}

\* results of two files with one or two culprit lines
ResultLists ==
    SeqsUpTo({BlameResult(F, {1, 2}, 1..n, <<>>) : F \in Paths, n \in 1..2},
             MaxResults)

\* the values of limit: two beyond the longest list, and a negative one
Limits == (0 - 1)..(MaxResults + 1)

ModelsInit ==
    /\ CliIdle
    /\ ParserIdle
    /\ GroupsIdle
    /\ IntersectIdle
    /\ GitIdle
    /\ CobIdle
    /\ RunIdle
    /\ line_set = {}
    /\ change_set = {}
    /\ compared = [none |-> TRUE]
    /\ models_pc \in {"LineInfo", "GitChange", "BlameAnalysis"}
    /\ self_results \in (IF models_pc = "BlameAnalysis" THEN ResultLists ELSE {<<>>})
    /\ top_culprits = [none |-> TRUE]

\* a == b and hash(a) == hash(b) for two LineInfo
LineInfoCompare ==
    /\ models_pc = "LineInfo"
    /\ \E a \in LineInfos, b \in LineInfos :
          compared' = [none |-> FALSE, a |-> a, b |-> b, eq |-> LineInfoEq(a, b),
                       hash_eq |-> LineInfoHash(a) = LineInfoHash(b)]
    /\ UNCHANGED <<line_set, change_set, self_results, top_culprits, models_pc>>
    /\ UNCHANGED notModels

\* a LineInfo is added to a set
LineInfoSetAdd ==
    /\ models_pc = "LineInfo"
    /\ \E x \in LineInfos : line_set' = LineInfoSetWith(line_set, x)
    /\ UNCHANGED <<change_set, compared, self_results, top_culprits, models_pc>>
    /\ UNCHANGED notModels

\* a == b and hash(a) == hash(b) for two GitChange
GitChangeCompare ==
    /\ models_pc = "GitChange"
    /\ \E a \in GitChanges, b \in GitChanges :
          compared' = [none |-> FALSE, a |-> a, b |-> b, eq |-> GitChangeEq(a, b),
                       hash_eq |-> GitChangeHash(a) = GitChangeHash(b)]
    /\ UNCHANGED <<line_set, change_set, self_results, top_culprits, models_pc>>
    /\ UNCHANGED notModels

\* a GitChange is added to a set
GitChangeSetAdd ==
    /\ models_pc = "GitChange"
    /\ \E x \in GitChanges :
          change_set' = GitChangeSetWith(change_set, x)
    /\ UNCHANGED <<line_set, compared, self_results, top_culprits, models_pc>>
    /\ UNCHANGED notModels

\* analysis.get_top_culprits(limit): sorted() builds a new list
GetTopCulpritsCall ==
    /\ models_pc = "BlameAnalysis"
    /\ \E limit \in Limits :
          top_culprits' = [none |-> FALSE, limit |-> limit,
                           returned |-> GetTopCulprits(self_results, limit)]
    /\ UNCHANGED <<line_set, change_set, compared, self_results, models_pc>>
    /\ UNCHANGED notModels

ModelsNext ==
    \/ LineInfoCompare
    \/ LineInfoSetAdd
    \/ GitChangeCompare
    \/ GitChangeSetAdd
    \/ GetTopCulpritsCall

SpecModels == ModelsInit /\ [][ModelsNext]_vars

-----------------------------------------------------------------------------
(* The command line (cli.py 11-139): main validates the arguments, builds a
   BlamTracker from the coverage path, the repository path and the days, and
   calls run, which mines the repository with
   git_analyzer.get_recent_changes(self.days) (blame_tracker.py 50).  The
   mining is the one of get_recent_changes above; what run does before and
   after it is in the steps of run. *)

\* git_analyzer.py 38: max_workers: int = 4
DefaultMaxWorkers == 4

\* the values given to --workers and --days; paths_ok: the coverage file exists
\* and the repository path has a .git (68-83)
ArgsGiven ==
    [none : {FALSE}, workers : 0..2, days : Lookbacks \cup {0}, paths_ok : BOOLEAN]

CliInit ==
    /\ ParserIdle
    /\ GroupsIdle
    /\ IntersectIdle
    /\ CobIdle
    /\ RunIdle
    /\ ModelsIdle
    /\ history \in UNION {HistoriesOf(n) : n \in 1..MaxRunCommits}
    /\ days = 0
    /\ max_workers = 0
    /\ walk_pos = 0
    /\ commits = <<>>
    /\ futures = <<>>
    /\ changes = EmptyMap
    /\ merged = <<>>
    /\ git_pc = "idle"
    /\ args \in ArgsGiven
    /\ cli_pc = "validate"

\* 67-91: a path is missing, or days or workers is not positive: return 1
CliReject ==
    /\ cli_pc = "validate"
    /\ ~args.paths_ok \/ args.days <= 0 \/ args.workers <= 0
    /\ cli_pc' = "exit1"
    /\ UNCHANGED <<args, gitVars>>
    /\ UNCHANGED notCli

\* the arguments passed the validation
Validated == args.paths_ok /\ args.days > 0 /\ args.workers > 0

\* 102-108, blame_tracker.py 43-44, cli.py 131-139: parser.parse() raises and
\* main returns 1
CliParseRaises ==
    /\ cli_pc = "validate"
    /\ Validated
    /\ cli_pc' = "exit1"
    /\ UNCHANGED <<args, gitVars>>
    /\ UNCHANGED notCli

\* 102-108, blame_tracker.py 49-50, git_analyzer.py 35-54: BlamTracker gets
\* the days, run calls get_recent_changes(self.days) and max_workers takes its
\* default
CliMine ==
    /\ cli_pc = "validate"
    /\ Validated
    /\ days' = args.days
    /\ max_workers' = DefaultMaxWorkers
    /\ git_pc' = "walk"
    /\ cli_pc' = "mining"
    /\ UNCHANGED <<args, history, walk_pos, commits, futures, changes, merged>>
    /\ UNCHANGED notCli

\* blame_tracker.py 51-68, cli.py 110-129: the mining has returned; the
\* intersection and the report follow and main returns 0
CliReturn ==
    /\ cli_pc = "mining"
    /\ git_pc = "returned"
    /\ cli_pc' = "exit0"
    /\ UNCHANGED <<args, gitVars>>
    /\ UNCHANGED notCli

CliNext ==
    \/ CliReject
    \/ CliParseRaises
    \/ CliMine
    \/ WalkTake
    \/ WalkBreak
    \/ WalkEnd
    \/ Submit
    \/ StartTask
    \/ FinishTask
    \/ MergeResult
    \/ GitReturn
    \/ CliReturn

SpecCli == CliInit /\ [][CliNext]_vars

-----------------------------------------------------------------------------
(* What git meant by a diff ls: the post-image line numbers of its added lines,
   from the kinds of its lines and the hunk headers' start, not from its text. *)

PositionsOf(ls, ks) == {i \in 1..Len(ls) : ls[i].kind \in ks}

\* the hunk header that line i of ls is under
HunkAt(ls, i) == LastOf(SubSeq(ls, 1, i - 1), {"hunk"})

\* the file whose section line i of ls is in
FileAt(ls, i) == ls[LastOf(SubSeq(ls, 1, i - 1), {"plus"})].file

\* c + k: the hunk's post-image start plus the context and added lines before i
NewLineNo(ls, i) ==
    ls[HunkAt(ls, i)].start + Count(ls, HunkAt(ls, i) + 1, i - 1, {"ctx", "add"})

AddedIn(ls, F) ==
    {NewLineNo(ls, i) : i \in {j \in PositionsOf(ls, {"add"}) : FileAt(ls, j) = F}}

HunkFiles(ls) == {FileAt(ls, i) : i \in PositionsOf(ls, {"hunk"})}

\* no added line of ls has a text that itself starts with "++"
NoPlusPlusAdded(ls) ==
    \A i \in PositionsOf(ls, {"add"}) : ~StartsWith(ls[i].text, <<"+", "+", "+">>)

Kinds(ls) == [i \in 1..Len(ls) |-> ls[i].kind]

-----------------------------------------------------------------------------
(* Claims *)

\* C1: for a unified diff whose added lines do not themselves start with "++",
\* after every line read and at the return the parser's map holds, for each file
\* with a hunk, exactly the numbers c + k of the added lines (c the hunk's
\* post-image start, k the context and added lines before the added line in its
\* hunk); deleted and no-newline lines give no number and do not advance the
\* counter; no other key holds a number.
C1_AddedLineNumbers ==
    NoPlusPlusAdded(lines) =>
        /\ parse_pc # "raised"
        /\ \A F \in HunkFiles(lines) :
              /\ F \in DOMAIN changes_by_file
              /\ changes_by_file[F] = AddedIn(lines, F)
        /\ \A K \in DOMAIN changes_by_file \ HunkFiles(lines) :
              changes_by_file[K] = {}

\* C1 witness: "@@ -15,5 +16,6 @@" with [context, context, delete, context, add]
\* has been read and the add is reported as line 19.
C1_Witness ==
    /\ Kinds(lines) = <<"minus", "plus", "hunk", "ctx", "ctx", "del", "ctx", "add">>
    /\ lines[3].start = 16
    /\ NoPlusPlusAdded(lines)
    /\ changes_by_file[PathF] = {19}

-----------------------------------------------------------------------------
(* Properties of the groups *)

GroupSet == {groups[i] : i \in 1..Len(groups)}

\* the culprit lines of group g
CulpritsOf(g) == {c \in culprit_lines : g.start_line <= c /\ c <= g.end_line}

\* a and b lie in one group
SameGroup(a, b) ==
    \E g \in GroupSet : g.start_line <= a /\ a <= g.end_line
                        /\ g.start_line <= b /\ b <= g.end_line

\* a < b are neighbours in ascending order of the culprit lines
Neighbours(a, b) ==
    /\ a \in culprit_lines
    /\ b \in culprit_lines
    /\ a < b
    /\ ~\E c \in culprit_lines : a < c /\ c < b

\* the file lines from..to without their line ends, in ascending order
ContentOf(from, to) ==
    [i \in 1..Max(0, to - from + 1) |-> LineContent(from + i - 1)]

\* C4: when _create_blame_groups has returned, two culprit lines that are
\* neighbours in ascending order are in the same group if and only if they differ
\* by at most 10 = 2 * CONTEXT_LINES (so a chain of lines each at most 10 from its
\* predecessor is one group, and a gap of 11 or more starts a new group).
C4_GroupByNeighbourDistance ==
    group_pc = "returned" =>
        \A a \in culprit_lines : \A b \in culprit_lines :
            Neighbours(a, b) => (SameGroup(a, b) <=> b - a <= 10)

\* C4 witness: the chain 1, 11, 21 (span 20) has come out as the single group [1, 21].
C4_Witness ==
    /\ group_pc = "returned"
    /\ culprit_lines = {1, 11, 21}
    /\ Len(groups) = 1
    /\ groups[1].start_line = 1
    /\ groups[1].end_line = 21

\* C5: for every group built over a file of L >= end_line lines, start_line and
\* end_line are the least and greatest culprit line of the group, context_before is
\* exactly the file lines max(1, start_line - 5) .. start_line - 1 and context_after
\* exactly the file lines end_line + 1 .. min(L, end_line + 5), in ascending order.
C5_ContextWindow ==
    \A g \in GroupSet :
        Len(file_lines) >= g.end_line =>
            /\ g.start_line \in culprit_lines
            /\ g.end_line \in culprit_lines
            /\ g.start_line <= g.end_line
            /\ g.context_before = ContentOf(Max(1, g.start_line - 5), g.start_line - 1)
            /\ g.context_after =
                   ContentOf(g.end_line + 1, Min(Len(file_lines), g.end_line + 5))

\* C5 witness: culprits {5, 6, 7} in a 15-line file: 4 lines before, 5 after.
C5_Witness ==
    /\ group_pc = "returned"
    /\ culprit_lines = {5, 6, 7}
    /\ Len(file_lines) = 15
    /\ Len(groups) = 1
    /\ Len(groups[1].context_before) = 4
    /\ Len(groups[1].context_after) = 5

\* C6 as claimed: for every group (over a file that holds all its lines) the
\* culprit text has exactly one entry per culprit line of the group, the file text
\* at that line, and no entry for a line between start_line and end_line that is
\* not a culprit line.
C6_CulpritTextOnlyCulprits ==
    \A g \in GroupSet :
        Len(file_lines) >= g.end_line =>
            /\ Len(g.culprit_lines) = Cardinality(CulpritsOf(g))
            /\ g.culprit_lines =
                   [i \in 1..Cardinality(CulpritsOf(g)) |->
                        LineContent(Sorted(CulpritsOf(g))[i])]

\* C6 amended: for every group the culprit text has exactly one entry per line
\* number from start_line to min(end_line, len(file_lines)), the file text at that
\* line, whether or not the line is a culprit line; over a file that holds the
\* whole group that is end_line - start_line + 1 entries.
C6_CulpritTextWholeRange ==
    \A g \in GroupSet :
        /\ g.culprit_lines = ContentOf(g.start_line, Min(g.end_line, Len(file_lines)))
        /\ Len(file_lines) >= g.end_line =>
               Len(g.culprit_lines) = g.end_line - g.start_line + 1

\* C6 witness: culprits {5, 7} in a file of 7 lines or more: one group whose
\* culprit text has the three lines 5, 6, 7.
C6_Witness ==
    /\ group_pc = "returned"
    /\ culprit_lines = {5, 7}
    /\ Len(file_lines) >= 7
    /\ Len(groups) = 1
    /\ groups[1].culprit_lines = <<LineContent(5), LineContent(6), LineContent(7)>>

-----------------------------------------------------------------------------
(* Properties of intersect *)

\* the positions of coverage_data the loop has dealt with
Processed == 1..(file_idx - 1)

\* uncovered(F) for the file at position k of the coverage map: the line numbers
\* listed with status UNCOVERED
UncoveredAt(k) ==
    {n \in 1..MaxCovLine :
        \E j \in DOMAIN coverage_data[k].lines :
            /\ coverage_data[k].lines[j].line_number = n
            /\ coverage_data[k].lines[j].status = "uncovered"}

\* changed(F) for a file that is a key of the change map
ChangedOf(F) == git_changes[F].line_numbers

\* the positions of results that are about file F
ResultsFor(F) == {i \in DOMAIN results : results[i].file_path = F}

\* C2: for every file that is a key of both maps and has a result, the result has
\* total_uncovered_lines = |uncovered(F)| and uncovered_in_changes =
\* |uncovered(F) \cap changed(F)|, so uncovered_in_changes <= total_uncovered_lines.
C2_ResultCounts ==
    \A k \in DOMAIN coverage_data :
        LET F == coverage_data[k].file_path IN
        F \in DOMAIN git_changes =>
            \A i \in ResultsFor(F) :
                /\ results[i].total_uncovered_lines = Cardinality(UncoveredAt(k))
                /\ results[i].uncovered_in_changes =
                       Cardinality(UncoveredAt(k) \cap ChangedOf(F))
                /\ results[i].uncovered_in_changes <= results[i].total_uncovered_lines

\* C2 witness: intersect has returned a result for a file with a partially
\* covered line among its lines, two uncovered lines and one of them changed.
C2_Witness ==
    /\ inter_pc = "returned"
    /\ \E k \in DOMAIN coverage_data :
          LET F == coverage_data[k].file_path IN
          /\ F \in DOMAIN git_changes
          /\ Cardinality(UncoveredAt(k)) = 2
          /\ Cardinality(UncoveredAt(k) \cap ChangedOf(F)) = 1
          /\ \E i \in ResultsFor(F) : results[i].total_uncovered_lines = 2
    /\ \E k \in DOMAIN coverage_data :
          \E j \in DOMAIN coverage_data[k].lines :
              coverage_data[k].lines[j].status = "partial"

\* C3: a file of the coverage map has a result if and only if the change map has
\* a record under the same path string and uncovered(F) \cap changed(F) is not
\* empty; no file has more than one result, and every result is about a file of
\* the coverage map.
C3_ResultIffCulprit ==
    /\ \A k \in Processed :
          LET F == coverage_data[k].file_path IN
          /\ (ResultsFor(F) # {}) <=>
                 (F \in DOMAIN git_changes /\ UncoveredAt(k) \cap ChangedOf(F) # {})
          /\ Cardinality(ResultsFor(F)) <= 1
    /\ \A i \in DOMAIN results :
          \E k \in Processed : coverage_data[k].file_path = results[i].file_path

\* C3 witness: intersect has returned; the coverage map has "./f" with an
\* uncovered line 1, the change map has line 1 under "f" and nothing under "./f",
\* and the one result is about g.
C3_Witness ==
    /\ inter_pc = "returned"
    /\ Len(results) = 1
    /\ results[1].file_path = PathG
    /\ PathF \in DOMAIN git_changes
    /\ 1 \in ChangedOf(PathF)
    /\ \E k \in DOMAIN coverage_data :
          /\ coverage_data[k].file_path = PathDotF
          /\ 1 \in UncoveredAt(k)

-----------------------------------------------------------------------------
(* Properties of get_recent_changes *)

\* commit history[i] was made at or after now - days
InWindow(i) == history[i].committed_date >= Now - days

\* the length of the longest prefix of the walk whose commits are all in the window
PrefixLen == Cardinality({i \in DOMAIN history : \A k \in 1..i : InWindow(k)})

\* the line numbers _parse_unified_diff reports for file F in the diff of history[i]
ReportedFor(i, F) ==
    LET m == ParseUnifiedDiff(DiffText(history, i))
    IN  IF F \in DOMAIN m THEN m[F] ELSE {}

\* the changed-line set of file F in the map
LinesOf(F) == IF F \in DOMAIN changes THEN changes[F].line_numbers ELSE {}

\* history[i] was selected and an exception was raised while it was processed
ProcessingFailed(i) ==
    \E j \in DOMAIN futures : commits[j] = i /\ futures[j].raised

\* what the j-th selected commit contributes for file F: the line numbers of F
\* in the map its task returned
ContributionOf(j, F) ==
    IF F \in DOMAIN futures[j].result THEN futures[j].result[F].line_numbers ELSE {}

\* the futures merged so far
MergedSet == {merged[k] : k \in DOMAIN merged}

C8_UnionOfContributions ==
    \A F \in Paths \cup DOMAIN changes :
        LET U == UNION {ContributionOf(j, F) : j \in MergedSet} IN
        /\ F \in DOMAIN changes <=> U # {}
        /\ LinesOf(F) = U

\* C8 witness: get_recent_changes has returned after merging three commits, not
\* in the order of submission; one of them contributes nothing for f, and the
\* lines of f are more than any one commit contributes.
C8_Witness ==
    /\ git_pc = "returned"
    /\ Len(merged) = 3
    /\ merged[1] > merged[2]
    /\ \E j \in MergedSet : ~futures[j].raised /\ ContributionOf(j, PathF) = {}
    /\ \A j \in MergedSet : ContributionOf(j, PathF) # LinesOf(PathF)
    /\ PathF \in DOMAIN changes

\* the positions of the merge order at which a commit that touches F was merged
Touching(F) == {k \in DOMAIN merged : ContributionOf(merged[k], F) # {}}

\* the provenance fields of a record
Provenance(r) == <<r.author, r.commit_hash, r.commit_date, r.commit_message>>

\* the provenance fields as they are read from the j-th selected commit
ProvenanceFrom(j) ==
    LET c == history[commits[j]]
    IN  <<c.author, Take(c.hexsha, 7), IsoFormat(c.committed_date), FirstLine(c.message)>>

RECURSIVE MergeOfOthers(_)
MergeOfOthers(order) ==
    IF order = <<>> THEN EmptyMap
    ELSE LET j == order[Len(order)]
             rest == MergeOfOthers(SubSeq(order, 1, Len(order) - 1))
         IN  IF futures[j].raised THEN rest
             ELSE MergeChanges(rest, futures[j].result)

-----------------------------------------------------------------------------
(* Who writes the shared map *)

\* the caller's loop merges the result of future j, and nothing else happens
MergesOne(j) ==
    /\ futures[j].state = "done"
    /\ futures' = [futures EXCEPT ![j].state = "merged"]
    /\ merged' = Append(merged, j)
    /\ changes' = MergeChanges(changes, futures[j].result)

\* the worker of task j writes its own map, and nothing else is written
WritesOwnMap(j) ==
    /\ futures[j].state = "running"
    /\ \A k \in DOMAIN futures \ {j} : futures'[k] = futures[k]
    /\ changes' = changes
    /\ merged' = merged

\* C11: in every step of every interleaving of the commit tasks, the shared map
\* (and so every line set in it) changes only by the caller's merge of exactly
\* one finished future; a task's map is written only by its own worker while the
\* task runs, in a step that leaves the shared map and every other task's map
\* alone; and a map is not written again once its task has finished.
C11_SharedMapWrittenByMergeOnly ==
    [][/\ changes' # changes => \E j \in DOMAIN futures : MergesOne(j)
       /\ \A j \in DOMAIN futures :
             futures'[j].result # futures[j].result => WritesOwnMap(j)
       /\ \A j \in DOMAIN futures :
             futures[j].state \in {"done", "merged"} =>
                 futures'[j].result = futures[j].result]_gitVars

\* C11 witness: two tasks are running at once while the result of a third has
\* already been merged into a map that is not empty.
C11_Witness ==
    /\ git_pc = "pool"
    /\ Cardinality(InState("running")) = 2
    /\ merged # <<>>
    /\ changes # EmptyMap

-----------------------------------------------------------------------------
(* The order of the results *)

\* the position of file F in the coverage map
PositionOf(F) == CHOOSE k \in DOMAIN coverage_data : coverage_data[k].file_path = F

\* C12: the list intersect returns is in descending order of
\* uncovered_in_changes, and results with equal uncovered_in_changes are in the
\* order in which their files come in the coverage map.
C12_SortedStable ==
    inter_pc = "returned" =>
        \A i, j \in DOMAIN results :
            i < j =>
                /\ results[i].uncovered_in_changes >= results[j].uncovered_in_changes
                /\ results[i].uncovered_in_changes = results[j].uncovered_in_changes
                      => PositionOf(results[i].file_path)
                             < PositionOf(results[j].file_path)

\* C12 witness: intersect has returned two results with one culprit line each;
\* g, which comes first in the coverage map, is first although the other file
\* has more uncovered lines.
C12_Witness ==
    /\ inter_pc = "returned"
    /\ Len(results) = 2
    /\ results[1].uncovered_in_changes = results[2].uncovered_in_changes
    /\ results[1].file_path = PathG
    /\ results[1].total_uncovered_lines < results[2].total_uncovered_lines

-----------------------------------------------------------------------------
(* What a report says: the numbers its attribute texts denote, read off the
   texts and not through the parser *)

\* the texts that are integers, with the integers they denote
IntTexts ==
    {<<(<<"0">>), 0>>, <<(<<"1">>), 1>>, <<(<<"2">>), 2>>, <<(<<"3">>), 3>>,
     <<(<<"-", "1">>), 0 - 1>>}

\* the texts that are decimal numbers, with whether the number is above zero
RateTexts ==
    {<<(<<"0", ".", "5">>), TRUE>>, <<(<<"0", ".", "0">>), FALSE>>}

IsIntText(t) == \E p \in IntTexts : p[1] = t
IntOf(t) == (CHOOSE p \in IntTexts : p[1] = t)[2]
IsRateText(t) == \E p \in RateTexts : p[1] = t

\* the entry's number and hits, 0 where the attribute is missing
NumberOf(e) == IF e.number = NoneAttr THEN 0 ELSE IntOf(e.number)
HitsOf(e) == IF e.hits = NoneAttr THEN 0 ELSE IntOf(e.hits)

\* the entry has a branch-rate attribute whose value is above zero
PositiveRate(e) ==
    \E p \in RateTexts : p[1] = e.branch_rate /\ p[2]

\* every attribute the entry has is a number
NumericEntry(e) ==
    /\ e.number = NoneAttr \/ IsIntText(e.number)
    /\ e.hits = NoneAttr \/ IsIntText(e.hits)
    /\ e.branch_rate = NoneAttr \/ IsRateText(e.branch_rate)

\* the position of the class element that the element at position i is under
ClassOf(i) ==
    CHOOSE k \in 1..i :
        report[k].tag = "class" /\ \A j \in (k + 1)..i : report[j].tag = "line"

\* the line elements under the class element at position k, in order
LinesUnder(k) ==
    SelectSeq([i \in 1..(Len(report) - k) |-> [pos |-> k + i, e |-> report[k + i]]],
              LAMBDA x : x.e.tag = "line" /\ ClassOf(x.pos) = k)

\* the line elements of the class element being read
CurrentLines == LinesUnder(ClassOf(Len(report)))

\* the status the claim gives a numeric entry
StatusHitsZero(e) ==
    IF HitsOf(e) > 0 THEN "covered"
    ELSE IF HitsOf(e) = 0 /\ PositiveRate(e) THEN "partial"
    ELSE "uncovered"

\* the same with "no hits" for hits <= 0
StatusNoHits(e) ==
    IF HitsOf(e) > 0 THEN "covered"
    ELSE IF HitsOf(e) <= 0 /\ PositiveRate(e) THEN "partial"
    ELSE "uncovered"

\* C13 as stated: while a class element whose line entries all have numeric
\* attributes is read, its FileCoverage holds one record per entry, COVERED iff
\* hits > 0, PARTIAL iff hits = 0 and a branch-rate above zero, UNCOVERED
\* otherwise; get_uncovered_lines and get_covered_lines are the numbers of the
\* entries of the matching status.
C13_StatusHitsZero ==
    cob_pc = "lines" =>
        LET es == CurrentLines IN
        (\A i \in DOMAIN es : NumericEntry(es[i].e)) =>
            /\ Len(file_coverage.lines) = Len(es)
            /\ \A i \in DOMAIN es :
                  /\ file_coverage.lines[i].line_number = NumberOf(es[i].e)
                  /\ file_coverage.lines[i].status = StatusHitsZero(es[i].e)
            /\ GetUncoveredLines(file_coverage) =
                   {NumberOf(es[i].e) :
                       i \in {j \in DOMAIN es : StatusHitsZero(es[j].e) = "uncovered"}}
            /\ GetCoveredLines(file_coverage) =
                   {NumberOf(es[i].e) : i \in {j \in DOMAIN es : HitsOf(es[j].e) > 0}}

\* C13 amended: while a class element whose line entries all have numeric
\* attributes is read, its FileCoverage holds one record per entry, COVERED iff
\* hits > 0, PARTIAL iff hits <= 0 and a branch-rate above zero, UNCOVERED
\* otherwise; get_uncovered_lines is the numbers of the entries with hits <= 0
\* and no branch-rate above zero, get_covered_lines those with hits > 0.
C13_StatusNoHits ==
    cob_pc = "lines" =>
        LET es == CurrentLines IN
        (\A i \in DOMAIN es : NumericEntry(es[i].e)) =>
            /\ Len(file_coverage.lines) = Len(es)
            /\ \A i \in DOMAIN es :
                  /\ file_coverage.lines[i].line_number = NumberOf(es[i].e)
                  /\ file_coverage.lines[i].status = StatusNoHits(es[i].e)
                  /\ file_coverage.lines[i].hits = HitsOf(es[i].e)
            /\ GetUncoveredLines(file_coverage) =
                   {NumberOf(es[i].e) :
                       i \in {j \in DOMAIN es :
                                HitsOf(es[j].e) <= 0 /\ ~PositiveRate(es[j].e)}}
            /\ GetCoveredLines(file_coverage) =
                   {NumberOf(es[i].e) : i \in {j \in DOMAIN es : HitsOf(es[j].e) > 0}}

\* C13 witness: a class element with a covered entry, an entry with hits 0 and
\* branch-rate 0.5 and an entry with hits 0 and branch-rate 0.0 has been read,
\* and the three records are covered, partial and uncovered.
C13_Witness ==
    /\ cob_pc = "lines"
    /\ Len(CurrentLines) = 3
    /\ \A i \in 1..3 : NumericEntry(CurrentLines[i].e)
    /\ [i \in 1..3 |-> file_coverage.lines[i].status]
           = <<"covered", "partial", "uncovered">>
    /\ CurrentLines[2].e.hits = <<"0">>
    /\ CurrentLines[3].e.branch_rate = <<"0", ".", "0">>

\* the filename is a relative path: no root and no drive
RelativeName(filename) ==
    /\ filename # <<>>
    /\ filename[1] \notin {"/", "\\"}
    /\ ~(Len(filename) >= 2 /\ filename[2] = ":")

\* C14: while a class element whose filename is a relative path is read, the
\* path of its FileCoverage (the key it is stored under) is the filename with
\* every backslash replaced by a forward slash, and nothing else.
C14_RelativeKeyIsFilename ==
    cob_pc = "lines" =>
        LET filename == report[ClassOf(Len(report))].filename IN
        RelativeName(filename) =>
            file_coverage.file_path = Replace(filename, "\\", "/")

\* the class elements of the report that have a filename
NamedClasses ==
    {k \in DOMAIN report : report[k].tag = "class" /\ report[k].filename \in Filenames}

\* the key of the class element at position k
KeyOf(k) == FileKey(report[k].filename, platform, repo_root)

\* the records of the parseable line elements among report[1..n] that are under
\* a class element with key K, in the order of the report
RECURSIVE RecordsFor(_, _)
RecordsFor(K, n) ==
    IF n = 0 THEN <<>>
    ELSE IF /\ report[n].tag = "line"
            /\ ClassOf(n) \in NamedClasses
            /\ KeyOf(ClassOf(n)) = K
            /\ ParseLineElem(report[n]).ok
         THEN Append(RecordsFor(K, n - 1), ParseLineElem(report[n]).line_info)
         ELSE RecordsFor(K, n - 1)

\* the FileCoverage stored under key K
Stored(K) == {i \in DOMAIN coverage_by_file : coverage_by_file[i].file_path = K}

\* C15: in the map parse returns, the FileCoverage under a class element's
\* normalized path holds one record for every parseable line element under
\* every class element with that path, those of all the class elements that
\* name the file.
C15_EveryLineRecorded ==
    cob_pc = "returned" =>
        \A k \in NamedClasses :
            RecordsFor(KeyOf(k), Len(report)) # <<>> =>
                \E i \in Stored(KeyOf(k)) :
                    coverage_by_file[i].lines = RecordsFor(KeyOf(k), Len(report))

\* the line numbers a FileCoverage records
RecordedNumbers(self) == {self.lines[i].line_number : i \in DOMAIN self.lines}

DisjointSubsets(self) ==
    /\ GetUncoveredLines(self) \cap GetCoveredLines(self) = {}
    /\ GetUncoveredLines(self) \subseteq RecordedNumbers(self)
    /\ GetCoveredLines(self) \subseteq RecordedNumbers(self)

\* C16: for every FileCoverage, the one being built and those in the map,
\* get_uncovered_lines() and get_covered_lines() are disjoint and both are
\* subsets of the recorded line numbers.
C16_UncoveredCoveredDisjoint ==
    /\ cob_pc = "lines" => DisjointSubsets(file_coverage)
    /\ \A i \in DOMAIN coverage_by_file : DisjointSubsets(coverage_by_file[i])

\* an attribute of the entry is there and is not a number
NonNumericEntry(e) == ~NumericEntry(e)

\* number or hits is not an integer, or hits <= 0 and branch-rate is neither
\* missing, nor empty, nor a number
UnreadableEntry(e) ==
    IF e.number # NoneAttr /\ ~IsIntText(e.number) THEN TRUE
    ELSE IF e.hits # NoneAttr /\ ~IsIntText(e.hits) THEN TRUE
    ELSE /\ HitsOf(e) <= 0
         /\ e.branch_rate \notin {NoneAttr, <<>>}
         /\ ~IsRateText(e.branch_rate)

\* the numbers of the entries es that are not skipped, in order
KeptNumbers(es, Skips(_)) ==
    LET kept == SelectSeq(es, LAMBDA x : ~Skips(x.e))
    IN  [i \in DOMAIN kept |-> NumberOf(kept[i].e)]

NumbersIn(self) == [i \in DOMAIN self.lines |-> self.lines[i].line_number]

\* the class elements whose lines have all been read
ClosedClasses ==
    {k \in NamedClasses : cob_pc # "lines" \/ k # ClassOf(Len(report))}

\* each skipped entry leaves no record and the other entries keep theirs: the
\* FileCoverage being built has the numbers of the entries not skipped, a stored
\* FileCoverage those of the last closed class element of its path that has an
\* entry not skipped, and a path is a key only if it has such a class element
SkippedAndOmitted(Skips(_)) ==
    LET WithRecord == {k \in ClosedClasses : KeptNumbers(LinesUnder(k), Skips) # <<>>}
    IN  /\ cob_pc = "lines" =>
              NumbersIn(file_coverage) = KeptNumbers(CurrentLines, Skips)
        /\ \A i \in DOMAIN coverage_by_file :
              LET ks == {k \in WithRecord : KeyOf(k) = coverage_by_file[i].file_path}
              IN  /\ ks # {}
                  /\ \E k \in ks :
                        /\ \A l \in ks : l <= k
                        /\ NumbersIn(coverage_by_file[i])
                               = KeptNumbers(LinesUnder(k), Skips)
        /\ \A k \in WithRecord : Stored(KeyOf(k)) # {}

-----------------------------------------------------------------------------
(* Failures of the coverage loader *)

\* run has made no map, has not mined and has no analysis
NothingProduced ==
    /\ run_coverage = NotYet
    /\ run_changes = NotYet
    /\ run_results = NotYet
    /\ analysis = [none |-> TRUE]

\* C17: the only step run takes when the coverage file does not exist is to
\* raise FileNotFoundError, and when the document is not well-formed to raise
\* XMLSyntaxError; when it has raised either, no coverage map was returned (not
\* even for the elements before the error), the repository was not mined and no
\* BlameAnalysis was built; and run takes no step after it has raised.
C17_ParseFailurePropagates ==
    [][/\ (run_pc = "parse" /\ ~coverage_file.exists) =>
              (run_pc' = "raised" /\ raised' = "FileNotFoundError")
       /\ (run_pc = "parse" /\ coverage_file.exists /\ ~coverage_file.well_formed) =>
              (run_pc' = "raised" /\ raised' = "XMLSyntaxError")
       /\ (run_pc' = "raised" /\ raised' \in {"FileNotFoundError", "XMLSyntaxError"}) =>
              NothingProduced'
       /\ run_pc # "raised"]_vars

\* C17 witness: run has raised XMLSyntaxError on a document that had a class
\* element with a line before the error, with a valid repository to mine.
C17_Witness ==
    /\ run_pc = "raised"
    /\ raised = "XMLSyntaxError"
    /\ Len(coverage_file.elems) >= 2
    /\ repo.valid
    /\ NothingProduced

-----------------------------------------------------------------------------
(* Files that cannot be read *)

\* the first and last lines of the runs of the set S in which neighbours are at
\* most 2 * 5 apart
RunsOf(S) ==
    {b \in S \X S :
        /\ b[1] <= b[2]
        /\ ~\E y \in S : y < b[1] /\ y >= b[1] - 10
        /\ ~\E y \in S : y > b[2] /\ y <= b[2] + 10
        /\ \A x \in S : (b[1] <= x /\ x < b[2]) =>
               \E y \in S : y > x /\ y <= x + 10}

\* the start and end lines of the groups of a result
BoundariesOf(r) ==
    {<<r.blame_groups[i].start_line, r.blame_groups[i].end_line>> :
        i \in DOMAIN r.blame_groups}

\* C19: every file intersect has dealt with that has a culprit line has a
\* result, whether its lines could be read or the content list was empty; the
\* result's total_uncovered_lines, uncovered_in_changes and the start and end
\* lines of its groups are those the uncovered and changed line sets give, which
\* do not depend on the lines read; and _get_line_safe gives the empty string
\* for every line number outside 1..len(file_lines).
C19_UnreadableFileStillReported ==
    /\ \A k \in Processed :
          LET F == coverage_data[k].file_path
              culprits == IF F \in DOMAIN git_changes
                          THEN UncoveredAt(k) \cap ChangedOf(F) ELSE {}
          IN  culprits # {} =>
                  /\ ResultsFor(F) # {}
                  /\ \A i \in ResultsFor(F) :
                        /\ results[i].total_uncovered_lines
                               = Cardinality(UncoveredAt(k))
                        /\ results[i].uncovered_in_changes = Cardinality(culprits)
                        /\ BoundariesOf(results[i]) = RunsOf(culprits)
                        /\ Len(results[i].blame_groups)
                               = Cardinality(RunsOf(culprits))
    /\ \A fl \in FilesRead : \A n \in (0 - 1)..(MaxCovLine + 2) :
          n \notin 1..Len(fl) => GetLineSafe(fl, n) = <<>>

\* C19 witness: intersect has returned a result for a file with the culprit
\* lines 1 and 2 whose lines could not be read: its one group goes from line 1
\* to line 2 and has no text at all.
C19_Witness ==
    /\ inter_pc = "returned"
    /\ \E i \in DOMAIN results :
          /\ results[i].uncovered_in_changes = 2
          /\ Len(results[i].blame_groups) = 1
          /\ results[i].blame_groups[1].start_line = 1
          /\ results[i].blame_groups[1].end_line = 2
          /\ results[i].blame_groups[1].culprit_lines = <<>>
          /\ results[i].blame_groups[1].context_after = <<>>

-----------------------------------------------------------------------------
(* Diffs of several files *)

\* C20: when the parser returns from a diff of several files, the map has
\* exactly one key per file of the diff that has a hunk, the path of its "+++ b/<path>" header without the
\* "b/", and under it exactly the post-image numbers of the added lines of that
\* file's hunks, counted from each hunk header's start; no number of one file is
\* under another file's key.
C20_AddedLinesPerFile ==
    (parse_pc = "returned" /\ Cardinality(HunkFiles(lines)) >= 2) =>
        /\ DOMAIN changes_by_file = HunkFiles(lines)
        /\ \A F \in HunkFiles(lines) : changes_by_file[F] = AddedIn(lines, F)


-----------------------------------------------------------------------------
(* Files new in a commit *)

\* the hunks of ls whose pre-image is empty: the file is new
NewFileHunks(ls) == {i \in PositionsOf(ls, {"hunk"}) : ls[i].old = 0}

\* C21: when the parser returns from a diff, every file that is new in it (hunk
\* "@@ -0,0 +1,n @@" followed by n added lines, whatever their text) is a key of
\* the map and its set is exactly 1..n.
C21_NewFileAllLines ==
    parse_pc = "returned" =>
        \A i \in NewFileHunks(lines) :
            /\ FileAt(lines, i) \in DOMAIN changes_by_file
            /\ changes_by_file[FileAt(lines, i)] = 1..lines[i].new

-----------------------------------------------------------------------------
(* Equality and hashing of the records *)

\* C22: two LineInfo records compare equal and have equal hashes exactly when
\* their line_number is equal, whatever their status and hits; a set of
\* LineInfo holds at most one record per line number.
C22_LineInfoEqualByNumber ==
    /\ (models_pc = "LineInfo" /\ ~compared.none) =>
           ((compared.eq /\ compared.hash_eq)
                <=> compared.a.line_number = compared.b.line_number)
    /\ \A x \in line_set, y \in line_set : x.line_number = y.line_number => x = y

\* C22 witness: two records of one line with different statuses were compared
\* and found equal with equal hashes, and the set holds a record of every line
\* number, so that whatever is added next is already there.
C22_Witness ==
    /\ models_pc = "LineInfo"
    /\ ~compared.none
    /\ compared.a.line_number = compared.b.line_number
    /\ compared.a.status # compared.b.status
    /\ compared.eq
    /\ compared.hash_eq
    /\ {x.line_number : x \in line_set} = LineNumbers

\* C23: two GitChange records compare equal and have equal hashes exactly when
\* their file_path is equal, whatever their line_numbers and provenance.
C23_GitChangeEqualByPath ==
    (models_pc = "GitChange" /\ ~compared.none) =>
        ((compared.eq /\ compared.hash_eq)
             <=> compared.a.file_path = compared.b.file_path)

-----------------------------------------------------------------------------
(* The top culprits *)

\* the place of rs[i] when rs is ordered by uncovered_in_changes, greatest
\* first, and results with equal counts are left in the order they have in rs
RankIn(rs, i) ==
    Cardinality({j \in 1..Len(rs) :
                    \/ rs[j].uncovered_in_changes > rs[i].uncovered_in_changes
                    \/ /\ rs[j].uncovered_in_changes = rs[i].uncovered_in_changes
                       /\ j <= i})

-----------------------------------------------------------------------------
(* The whole run *)

\* the filename of the class element that the line element at position i of
\* elems is under
FilenameAt(elems, i) ==
    elems[CHOOSE k \in 1..i :
              elems[k].tag = "class" /\ \A j \in (k + 1)..i : elems[j].tag = "line"].filename

\* the line numbers the report marks as uncovered under the filename F
ReportedUncovered(elems, F) ==
    {NumberOf(elems[i]) :
        i \in {j \in 1..Len(elems) :
                 /\ elems[j].tag = "line"
                 /\ FilenameAt(elems, j) = F
                 /\ HitsOf(elems[j]) <= 0
                 /\ ~PositiveRate(elems[j])}}

\* the lines of F that the report marks as uncovered and the miner found changed
JoinedLines(F) ==
    IF F \in DOMAIN run_changes
    THEN ReportedUncovered(coverage_file.elems, F) \cap run_changes[F].line_numbers
    ELSE {}

\* the positions of the results of the returned analysis that are about F
ResultsAbout(F) ==
    {i \in 1..Len(analysis.results) : analysis.results[i].file_path = F}

\* C25: when run returns and the report names a file by the path the miner
\* records for it, and some of the lines the miner found changed are marked
\* uncovered by the report, the analysis has exactly one result with that path,
\* its uncovered_in_changes is the number of those lines and it has one blame
\* group, from the first of them to the last.
C25_EndToEndJoin ==
    run_pc = "returned" =>
        \A F \in Paths :
            JoinedLines(F) # {} =>
                /\ Cardinality(ResultsAbout(F)) = 1
                /\ \A i \in ResultsAbout(F) :
                      LET r == analysis.results[i] IN
                      /\ r.uncovered_in_changes = Cardinality(JoinedLines(F))
                      /\ Len(r.blame_groups) = 1
                      /\ \A n \in JoinedLines(F) :
                            /\ r.blame_groups[1].start_line <= n
                            /\ n <= r.blame_groups[1].end_line
                      /\ r.blame_groups[1].start_line \in JoinedLines(F)
                      /\ r.blame_groups[1].end_line \in JoinedLines(F)

-----------------------------------------------------------------------------
(* Added lines, whatever their text *)

\* the step reads an added line while the parser's current file is the file of
\* the line's section
ReadsAddedLine ==
    /\ Len(lines') = Len(lines) + 1
    /\ lines'[Len(lines')].kind = "add"
    /\ current_file = FileAt(lines', Len(lines'))
    /\ current_file \in DOMAIN changes_by_file

\* what the parser does with an added line
CountsAddedLine ==
    /\ parse_pc' = "loop"
    /\ current_file' = current_file
    /\ current_line_num' = current_line_num + 1
    /\ changes_by_file' =
           [changes_by_file EXCEPT ![current_file] = @ \cup {current_line_num}]

\* C26: every step that reads an added line of a hunk, whatever text follows
\* the "+" (also "++..."), puts the running line number in the current file's
\* set, advances the counter by one and leaves the current file as it is.
C26_EveryAddedLineCounted == [][ReadsAddedLine => CountsAddedLine]_vars

-----------------------------------------------------------------------------
(* The commits selected *)

\* the first position of the walk whose commit was made before now - d; one
\* past the end when there is none
FirstOlderFor(d) ==
    LET older == {i \in DOMAIN history : history[i].committed_date < Now - d}
    IN  IF older = {} THEN Len(history) + 1
        ELSE CHOOSE i \in older : \A k \in older : i <= k

\* the positions selected so far
Selected == {commits[j] : j \in DOMAIN commits}

-----------------------------------------------------------------------------
(* The lines of the tip *)

\* for each line of file F in the tree of history[i], the position in the
\* history of the commit that wrote the line
RECURSIVE OriginOf(_, _, _)
OriginOf(h, i, F) ==
    IF i > Len(h) THEN <<>>
    ELSE LET parent == OriginOf(h, i + 1, F)
             edit == h[i].edit
         IN  CASE edit = "root" -> Repeat(RootLines(F), i)
               [] edit = "append" -> Append(parent, i)
               [] edit = "delete" -> IF F = PathF THEN Tail(parent) ELSE parent
               [] edit = "plusplus" -> IF F = PathF THEN <<i, i, i>> \o parent
                                       ELSE parent

\* C28: when get_recent_changes returns, every line number of every file's
\* changed-line set is the number of a line of the file at the tip, and that
\* line was written by a commit made at or after now - days; also when a later
\* commit of the window inserts or deletes lines above it.
C28_TipLinesChangedInWindow ==
    git_pc = "returned" =>
        \A F \in DOMAIN changes :
            LET tip == OriginOf(history, 1, F) IN
            \A n \in changes[F].line_numbers :
                /\ n \in 1..Len(tip)
                /\ InWindow(tip[n])

-----------------------------------------------------------------------------
(* The groups as a partition *)

\* the groups whose range start_line..end_line has line c
GroupsHolding(c) ==
    {i \in 1..Len(groups) : groups[i].start_line <= c /\ c <= groups[i].end_line}

\* the context window of group g
WindowOf(g) == (g.start_line - 5)..(g.end_line + 5)

\* C29: for a non-empty culprit set the groups returned partition it: every
\* culprit line is in the range of exactly one group, the groups are in
\* ascending order with start_line <= end_line, each group's end_line is more
\* than 10 below the next group's start_line, and the context windows of two
\* groups have no line in common.
C29_GroupsPartition ==
    (group_pc = "returned" /\ culprit_lines # {}) =>
        /\ \A c \in culprit_lines : Cardinality(GroupsHolding(c)) = 1
        /\ \A i \in 1..Len(groups) : groups[i].start_line <= groups[i].end_line
        /\ \A i \in 1..(Len(groups) - 1) :
              groups[i].end_line + 10 < groups[i + 1].start_line
        /\ \A i \in 1..Len(groups) : \A j \in 1..Len(groups) :
              i # j => WindowOf(groups[i]) \cap WindowOf(groups[j]) = {}

\* C29 witness: the culprits 1, 12 and 22 came out as the groups 1..1 and
\* 12..22, whose windows end at 6 and start at 7.
C29_Witness ==
    /\ group_pc = "returned"
    /\ culprit_lines = {1, 12, 22}
    /\ Len(groups) = 2
    /\ groups[1].end_line = 1
    /\ groups[2].start_line = 12
    /\ groups[2].end_line = 22

-----------------------------------------------------------------------------
(* The worker pool *)

\* the commit-processing tasks in progress
InProgress == InState("running")

\* C30: at every moment of the mining at most max_workers tasks are in
\* progress, and when the mining was started from the command line at most as
\* many as the value given to --workers.
C30_AtMostWorkersInProgress ==
    /\ git_pc = "pool" => Cardinality(InProgress) <= max_workers
    /\ cli_pc = "mining" => Cardinality(InProgress) <= args.workers

=============================================================================
